---- MODULE Spec2Model ----
(***************************************************************************)
(* Verification model of VertexTweaker.cpp (BlendShapeBuilder plugin).     *)
(*                                                                         *)
(* Floats are modelled in exact fixed point: a selection weight, a         *)
(* strength or a bone weight w is the integer w * One; positions and       *)
(* vectors are tuples of integers.  Every sub-system of the file has its   *)
(* own state variable(s) and its own specification (SpecSelect,            *)
(* SpecInside, SpecBrush, SpecWeld, SpecMirror, SpecMirrorBuild, SpecSkin, *)
(* SpecProject, SpecWeld2, SpecCount, SpecPick, SpecSmooth, SpecTerrain,   *)
(* SpecEdit, SpecTopology, SpecFar, SpecPaint); a specification leaves the *)
(* variables of the other sub-systems at their idle value.                 *)
(***************************************************************************)
EXTENDS Integers, Naturals, Sequences, FiniteSets, TLC

VARIABLES
    selection,  \* npMeshData::selection of the mesh the npSelect* calls edit
    ret,        \* value returned by the last npSelect* call
    ins,        \* one run of SelectInside (serial loop or parallel blocks)
    brush,      \* one brush sample lookup
    weld,       \* one npWeld call: its input mesh and its result
    mir,        \* npBuildMirroringRelation / npApplyMirroring on one mesh
    skin,       \* npApplySkinning / npApplyReverseSkinning on one skin
    proj,       \* one npProjectVertices* call
    call,       \* one selection or weld call with its arguments and the buffers before it
    pick,       \* one run of npSelectNearestImpl
    smooth,     \* one npSmooth call
    terrain,    \* one npGenerateTerrainMesh call
    weld2,      \* one npWeld2 call: the model, the targets and the result
    edit,       \* one vertex edit call (assign, move, rotate, scale)
    far,        \* one GetFurthestDistance call
    paint       \* one vertex visit of npBrushPaint

vars == <<selection, ret, ins, brush, weld, mir, skin, proj, call, pick, smooth, terrain, weld2, edit, far, paint>>

Idle == [phase |-> "idle"]

\* the variables a selection call leaves alone
notSelect == <<ins, brush, weld, mir, skin, proj, call, pick, smooth, terrain, weld2, edit, far, paint>>

----------------------------------------------------------------------------
(* Generic helpers                                                         *)

\* fixed-point representation of the float 1.0f of a selection weight, a
\* strength or a brush sample
One == 2

Abs(x) == IF x < 0 THEN -x ELSE x

Min2(a, b) == IF a < b THEN a ELSE b

Max2(a, b) == IF a > b THEN a ELSE b

\* clamp01 of the math library: clamp to [0.0f, 1.0f]
clamp01(x) == Max2(0, Min2(One, x))

RECURSIVE SumSeq(_)
SumSeq(s) == IF s = <<>> THEN 0 ELSE Head(s) + SumSeq(Tail(s))

\* all sequences over S of length 0 .. n
SeqsUpTo(S, n) == UNION { [1..k -> S] : k \in 0..n }

----------------------------------------------------------------------------
(* Selection engine: npSelectSingle .. npSelectBrush                       *)

\* number of vertices of the edited mesh
NumVertices == 3

Verts == 0 .. NumVertices - 1

\* strengths a caller passes, in units of 1/One (negative = deselect)
MaxStrength == 3

Strengths == {-MaxStrength, -2, -1, 1, 2, MaxStrength}

\* longest list of vertices a topology search reports
MaxReport == 2

\* triangle index buffer of the edited mesh (npMeshData::indices)
indices == << <<0, 1, 2>>, <<2, 1, 0>> >>

\* vertex positions of the edited mesh on a line (npMeshData::vertices)
vertices == [vi \in Verts |-> 2 * vi]

\* selection[vi] = clamp01(selection[vi] + strength), dropped clamp
SelAddNoClamp(sel, vi, s) == [sel EXCEPT ![vi] = sel[vi] + s]

\* selection[vi] = clamp01(selection[vi] + strength)
SelAdd(sel, vi, s) == [sel EXCEPT ![vi] = clamp01(sel[vi] + s)]

\* the visitor of a topology search / the triangle loop: SelAdd for every
\* reported vertex, in report order
RECURSIVE SelAddAll(_, _, _)
SelAddAll(sel, seq, s) ==
    IF seq = <<>> THEN sel
    ELSE SelAddAll(SelAdd(sel, Head(seq), s), Tail(seq), s)

\* SelAdd for every vertex of a set (parallel blocks: each vertex owns its slot)
SelAddSet(sel, S, s) == [vi \in Verts |-> IF vi \in S THEN clamp01(sel[vi] + s) ELSE sel[vi]]

\* memset(selection, 0, num_vertices * 4)
ClearSel == [vi \in Verts |-> 0]

\* targets of npSelectEdge / npSelectHole: selected vertices under mask, else all
Targets(sel, mask) == IF mask THEN { vi \in Verts : sel[vi] > 0 } ELSE Verts

\* npSelectNearestImpl picks one vertex or nothing
npSelectSingle ==
    \E strength \in Strengths, hit \in BOOLEAN, pick_index \in Verts :
        /\ selection' = IF hit THEN SelAdd(selection, pick_index, strength) ELSE selection
        /\ ret' = IF hit THEN 1 ELSE 0
        /\ UNCHANGED notSelect

\* Raycast hits triangle ti or nothing
npSelectTriangle ==
    \E strength \in Strengths, hit \in BOOLEAN, ti \in 1 .. Len(indices) :
        /\ selection' = IF hit THEN SelAddAll(selection, indices[ti], strength) ELSE selection
        /\ ret' = IF hit THEN 1 ELSE 0
        /\ UNCHANGED notSelect

\* body shared by npSelectEdge and npSelectHole: the search reports vertices
\* of the target subset through the callback
SelectTopology(strength, clear, mask, reported) ==
    /\ \A k \in 1 .. Len(reported) : reported[k] \in Targets(selection, mask)
    /\ selection' = SelAddAll(IF clear THEN ClearSel ELSE selection, reported, strength)
    /\ ret' = Len(reported)
    /\ UNCHANGED notSelect

npSelectEdge ==
    \E strength \in Strengths, clear \in BOOLEAN, mask \in BOOLEAN,
       reported \in SeqsUpTo(Verts, MaxReport) :
        SelectTopology(strength, clear, mask, reported)

npSelectHole ==
    \E strength \in Strengths, clear \in BOOLEAN, mask \in BOOLEAN,
       reported \in SeqsUpTo(Verts, MaxReport) :
        SelectTopology(strength, clear, mask, reported)

\* the flood fill starts at the selected vertices and may report any vertex
npSelectConnected ==
    \E strength \in Strengths, clear \in BOOLEAN,
       reported \in SeqsUpTo(Verts, MaxReport) :
        /\ (Targets(selection, TRUE) = {} => reported = <<>>)
        /\ selection' = SelAddAll(IF clear THEN ClearSel ELSE selection, reported, strength)
        /\ ret' = Len(reported)
        /\ UNCHANGED notSelect

\* the vertices that pass the screen rectangle and front-face tests
npSelectRect ==
    \E strength \in Strengths, hits \in SUBSET Verts :
        /\ selection' = SelAddSet(selection, hits, strength)
        /\ ret' = Cardinality(hits)
        /\ UNCHANGED notSelect

\* the vertices that pass PolyInside and the front-face test
npSelectLasso ==
    \E strength \in Strengths, num_lasso_points \in 2 .. 3, hits \in SUBSET Verts :
        /\ IF num_lasso_points < 3
           THEN selection' = selection /\ ret' = 0
           ELSE /\ selection' = SelAddSet(selection, hits, strength)
                /\ ret' = Cardinality(hits)
        /\ UNCHANGED notSelect

----------------------------------------------------------------------------
(* Brush falloff model and SelectInside                                    *)

\* longest brush curve
MaxBSamples == 3

\* largest brush radius and largest brush-center coordinate
MaxRadius == 2

\* sample values of a brush curve: 0, 0.5 and 1
SampleValues == {0, One \div 2, One}

Curves == UNION { [1..n -> SampleValues] : n \in 1 .. MaxBSamples }

\* the 4x4 transform restricted to one axis: <<a, t>> maps v to a * v + t
IdentityTransform == <<1, 0>>

mul_p(transform, v) == transform[1] * v + transform[2]

length_sq(v) == v * v

\* do_select of SelectInside with the boundary excluded
InsideExclusive(transform, verts, vi, pos, radius) ==
    length_sq(mul_p(transform, verts[vi]) - pos) < radius * radius

\* do_select of SelectInside: is vertex vi within radius of pos
Inside(transform, verts, vi, pos, radius) ==
    length_sq(mul_p(transform, verts[vi]) - pos) <= radius * radius

\* distance handed to the visitor: std::sqrt(dsq)
VisitDistance(transform, verts, vi, pos) == Abs(mul_p(transform, verts[vi]) - pos)

\* bucket index without the "1.0f -": bucket 0 at the center
GetBrushSampleIndexFromCenter(distance, bradius, num_bsamples) ==
    (Max2(0, Min2(bradius, distance)) * (num_bsamples - 1)) \div bradius

\* int(clamp01(1.0f - distance / bradius) * (num_bsamples - 1)), for bradius > 0;
\* buckets are numbered from 0 as in the source
GetBrushSampleIndex(distance, bradius, num_bsamples) ==
    (Max2(0, Min2(bradius, bradius - distance)) * (num_bsamples - 1)) \div bradius

\* bsamples[GetBrushSampleIndex(...)]; the sequence bsamples is 1-based
GetBrushSample(distance, bradius, bsamples, num_bsamples) ==
    bsamples[GetBrushSampleIndex(distance, bradius, num_bsamples) + 1]

\* product of two fixed-point numbers
fmul(a, b) == (a * b) \div One

\* strengths for which sample * strength is exact in fixed point
BrushStrengths == { s \in Strengths : s % 2 = 0 }

npSelectBrush ==
    \E pos \in 0 .. MaxRadius + 1, radius \in 1 .. MaxRadius,
       strength \in BrushStrengths, bsamples \in [1 .. MaxBSamples -> SampleValues] :
        LET inside == { vi \in Verts : Inside(IdentityTransform, vertices, vi, pos, radius) }
            s(vi) == fmul(GetBrushSample(VisitDistance(IdentityTransform, vertices, vi, pos),
                                         radius, bsamples, Len(bsamples)), strength)
        IN /\ selection' = [vi \in Verts |->
                               IF vi \in inside THEN clamp01(selection[vi] + s(vi))
                               ELSE selection[vi]]
           /\ ret' = Cardinality(inside)
           /\ UNCHANGED notSelect

InitSelect ==
    /\ selection \in [Verts -> 0 .. One]
    /\ ret = 0
    /\ ins = Idle /\ brush = Idle /\ weld = Idle /\ mir = Idle /\ skin = Idle /\ proj = Idle
    /\ call = Idle /\ pick = Idle /\ smooth = Idle /\ terrain = Idle /\ weld2 = Idle
    /\ edit = Idle /\ far = Idle /\ paint = Idle

NextSelect ==
    \/ npSelectSingle
    \/ npSelectTriangle
    \/ npSelectEdge
    \/ npSelectHole
    \/ npSelectConnected
    \/ npSelectRect
    \/ npSelectLasso
    \/ npSelectBrush

SpecSelect == InitSelect /\ [][NextSelect]_vars

\* C1: after any sequence of npSelect* calls on a buffer that started in
\* [0,1], every vertex's selection weight is still in [0,1].
SelectionInRange == \A vi \in Verts : selection[vi] >= 0 /\ selection[vi] <= One

\* a selection call saturated one weight at 1 and another call drove one to 0
\* while a third weight sits strictly in between
SelectionClampedWitness ==
    /\ ret > 0
    /\ \E a, b, c \in Verts :
         selection[a] = One /\ selection[b] = 0 /\ selection[c] > 0 /\ selection[c] < One

----------------------------------------------------------------------------
(* SelectInside, step by step: the serial loop, or the blocks of           *)
(* parallel_for_blocked running concurrently                               *)

\* the variables a SelectInside run leaves alone
notInside == <<selection, ret, brush, weld, mir, skin, proj, call, pick, smooth, terrain, weld2, edit, far, paint>>

\* npVertexBlockSize (1024 in the source), scaled down with the mesh
npVertexBlockSize == 2

\* number of vertices of the mesh SelectInside scans
InsNumVertices == 4

\* largest local coordinate, and largest center coordinate and radius
InsMaxCoord == 1

InsVerts == 0 .. InsNumVertices - 1

\* transforms of the scanned mesh: identity, and scale 2 with offset 1
InsTransforms == { IdentityTransform, <<2, 1>> }

\* the tasks of the run: one per block of npVertexBlockSize vertices when
\* parallel, one loop over all vertices otherwise
InsBlocks(parallel) ==
    IF parallel THEN 0 .. ((InsNumVertices + npVertexBlockSize - 1) \div npVertexBlockSize) - 1
    ELSE {0}

\* first vertex of task b
InsBegin(parallel, b) == IF parallel THEN b * npVertexBlockSize ELSE 0

\* end (exclusive) of task b
InsEnd(parallel, b) ==
    IF parallel THEN Min2((b + 1) * npVertexBlockSize, InsNumVertices) ELSE InsNumVertices

InitInside ==
    /\ \E verts \in [InsVerts -> 0 .. InsMaxCoord], transform \in InsTransforms,
          pos \in 0 .. InsMaxCoord + 2, radius \in 0 .. InsMaxCoord + 1, parallel \in BOOLEAN :
         ins = [phase |-> "run", parallel |-> parallel, verts |-> verts,
                transform |-> transform, pos |-> pos, radius |-> radius,
                cur |-> [b \in InsBlocks(parallel) |-> InsBegin(parallel, b)],
                c |-> [b \in InsBlocks(parallel) |-> 0],
                added |-> [b \in InsBlocks(parallel) |-> FALSE],
                ret |-> 0,
                visits |-> [vi \in InsVerts |-> 0],
                result |-> -1]
    /\ selection = <<>> /\ ret = 0
    /\ brush = Idle /\ weld = Idle /\ mir = Idle /\ skin = Idle /\ proj = Idle
    /\ call = Idle /\ pick = Idle /\ smooth = Idle /\ terrain = Idle /\ weld2 = Idle
    /\ edit = Idle /\ far = Idle /\ paint = Idle

\* one iteration of the loop of task b: do_select(vi), which calls the visitor
InsVisit(b) ==
    /\ ins.phase = "run"
    /\ b \in DOMAIN ins.cur
    /\ ins.cur[b] < InsEnd(ins.parallel, b)
    /\ LET vi == ins.cur[b]
           hit == Inside(ins.transform, ins.verts, vi, ins.pos, ins.radius)
       IN ins' = [ins EXCEPT !.cur[b] = vi + 1,
                             !.c[b] = IF hit THEN @ + 1 ELSE @,
                             !.visits[vi] = IF hit THEN @ + 1 ELSE @]
    /\ UNCHANGED notInside

\* task b leaves its loop: ret += c (atomic when parallel)
InsAdd(b) ==
    /\ ins.phase = "run"
    /\ b \in DOMAIN ins.cur
    /\ ins.cur[b] = InsEnd(ins.parallel, b)
    /\ ~ins.added[b]
    /\ ins' = [ins EXCEPT !.ret = @ + ins.c[b], !.added[b] = TRUE]
    /\ UNCHANGED notInside

\* all tasks joined: return ret
InsReturn ==
    /\ ins.phase = "run"
    /\ \A b \in DOMAIN ins.added : ins.added[b]
    /\ ins' = [ins EXCEPT !.phase = "done", !.result = ins.ret]
    /\ UNCHANGED notInside

NextInside ==
    \/ \E b \in 0 .. InsNumVertices : InsVisit(b)
    \/ \E b \in 0 .. InsNumVertices : InsAdd(b)
    \/ InsReturn

SpecInside == InitInside /\ [][NextInside]_vars

\* is the world-space squared distance of vertex vi to the center <= radius^2
InsWithin(vi) ==
    LET p == ins.transform[1] * ins.verts[vi] + ins.transform[2]
    IN (p - ins.pos) * (p - ins.pos) <= ins.radius * ins.radius

\* C2: SelectInside invokes the visitor exactly once for every vertex within
\* the radius (boundary included), never for another vertex and never twice,
\* and returns the number of invocations, serial or parallel, under every
\* interleaving of the blocks.
SelectInsideExactlyOnce ==
    ins.phase # "idle" =>
        /\ \A vi \in InsVerts : ins.visits[vi] <= (IF InsWithin(vi) THEN 1 ELSE 0)
        /\ ins.phase = "done" =>
              /\ \A vi \in InsVerts : ins.visits[vi] = (IF InsWithin(vi) THEN 1 ELSE 0)
              /\ ins.result = Cardinality({ vi \in InsVerts : ins.visits[vi] = 1 })
              /\ ((\A vi \in InsVerts : InsWithin(vi)) => ins.result = InsNumVertices)

\* a parallel run over several blocks has returned; a vertex exactly on the
\* boundary was visited, a vertex outside was not
SelectInsideWitness ==
    /\ ins.phase = "done"
    /\ ins.parallel
    /\ Cardinality(DOMAIN ins.cur) > 1
    /\ ins.radius > 0
    /\ \E vi \in InsVerts :
         LET p == ins.transform[1] * ins.verts[vi] + ins.transform[2]
         IN (p - ins.pos) * (p - ins.pos) = ins.radius * ins.radius /\ ins.visits[vi] = 1
    /\ \E vi \in InsVerts : ~InsWithin(vi) /\ ins.visits[vi] = 0

----------------------------------------------------------------------------
(* One brush sample lookup, as the visitors of npSelectBrush and of the     *)
(* npBrush* operations do it for a vertex at a distance <= radius          *)

\* the variables a brush lookup leaves alone
notBrush == <<selection, ret, ins, weld, mir, skin, proj, call, pick, smooth, terrain, weld2, edit, far, paint>>

InitBrush ==
    /\ \E bradius \in 1 .. MaxRadius + 1, bsamples \in Curves :
         \E distance \in 0 .. bradius :
            brush = [phase |-> "visit", distance |-> distance, bradius |-> bradius,
                     bsamples |-> bsamples, index |-> -1, sample |-> -1]
    /\ selection = <<>> /\ ret = 0
    /\ ins = Idle /\ weld = Idle /\ mir = Idle /\ skin = Idle /\ proj = Idle
    /\ call = Idle /\ pick = Idle /\ smooth = Idle /\ terrain = Idle /\ weld2 = Idle
    /\ edit = Idle /\ far = Idle /\ paint = Idle

\* GetBrushSample(d, radius, bsamples, num_bsamples) in the visitor
BrushLookup ==
    /\ brush.phase = "visit"
    /\ brush' = [brush EXCEPT
                   !.phase = "done",
                   !.index = GetBrushSampleIndex(brush.distance, brush.bradius, Len(brush.bsamples)),
                   !.sample = GetBrushSample(brush.distance, brush.bradius,
                                             brush.bsamples, Len(brush.bsamples))]
    /\ UNCHANGED notBrush

NextBrush == BrushLookup

SpecBrush == InitBrush /\ [][NextBrush]_vars

\* C3 as stated: with index 0 the center sample and index N-1 the edge
\* sample, a vertex at distance == radius gets bsamples[N-1] and a vertex at
\* distance 0 gets bsamples[0] (the sequence is 1-based: bsamples[N], bsamples[1]).
BrushEdgeIsLastSample ==
    brush.phase = "done" =>
        /\ brush.distance = brush.bradius => brush.sample = brush.bsamples[Len(brush.bsamples)]
        /\ brush.distance = 0 => brush.sample = brush.bsamples[1]

\* C3 amended: the curve is indexed from the edge: a vertex at distance ==
\* radius gets bucket 0 (bsamples[0]) and a vertex at distance 0 gets bucket
\* N-1 (bsamples[N-1]).
BrushEdgeIsFirstSample ==
    brush.phase = "done" =>
        /\ brush.distance = brush.bradius =>
              brush.index = 0 /\ brush.sample = brush.bsamples[1]
        /\ brush.distance = 0 =>
              /\ brush.index = Len(brush.bsamples) - 1
              /\ brush.sample = brush.bsamples[Len(brush.bsamples)]

\* a vertex on the brush boundary was looked up in a curve whose two ends differ
BrushEdgeWitness ==
    /\ brush.phase = "done"
    /\ brush.distance = brush.bradius
    /\ Len(brush.bsamples) > 1
    /\ brush.bsamples[1] # brush.bsamples[Len(brush.bsamples)]
    /\ brush.sample = brush.bsamples[1]

----------------------------------------------------------------------------
(* Vectors.  A normal is a pair of integers; a unit normal has length      *)
(* NormalLen.  normalize rounds every component to the nearest integer, as *)
(* the float normalize rounds to the nearest float.                        *)

\* fixed-point length of a unit vector
NormalLen == 25

VAdd(a, b) == <<a[1] + b[1], a[2] + b[2]>>

dot(a, b) == a[1] * b[1] + a[2] * b[2]

\* round(NormalLen * x / sqrt(s)) for x >= 0, s > 0
RoundUnit(x, s) ==
    CHOOSE m \in 0 .. NormalLen :
        /\ m = 0 \/ (2 * m - 1) * (2 * m - 1) * s <= 4 * NormalLen * NormalLen * x * x
        /\ m = NormalLen \/ (2 * m + 1) * (2 * m + 1) * s > 4 * NormalLen * NormalLen * x * x

\* normalize of the math library; the zero vector (0/0 in the source) stays zero
normalize(v) ==
    LET s == dot(v, v)
        comp(x) == IF x >= 0 THEN RoundUnit(x, s) ELSE -RoundUnit(-x, s)
    IN IF s = 0 THEN <<0, 0>> ELSE <<comp(v[1]), comp(v[2])>>

\* angle_between(a, b) * Rad2Deg <= weld_angle.  A weld angle is given by k =
\* 5 * cos(weld_angle): 5 is 0 degrees, 4 is 36.87, 3 is 53.13, 0 is 90, -5 is
\* 180; 6 stands for a negative weld_angle.  The angle to a zero vector is NaN
\* and compares false.
AngleWithin(a, b, k) ==
    LET d == dot(a, b)
        aa == dot(a, a)
        bb == dot(b, b)
    IN /\ aa > 0 /\ bb > 0
       /\ IF k >= 0 THEN d >= 0 /\ 25 * d * d >= k * k * aa * bb
          ELSE d >= 0 \/ 25 * d * d <= k * k * aa * bb

----------------------------------------------------------------------------
(* npWeld                                                                  *)

\* the variables npWeld leaves alone
notWeld == <<selection, ret, ins, brush, mir, skin, proj, call, pick, smooth, terrain, weld2, edit, far, paint>>

\* npEpsilon (0.0000001f) in units of the coordinate grid of the welded mesh
npEpsilon == 3

\* number of vertices of the welded mesh
WeldNumVertices == 4

\* coordinates of the welded mesh: 0, 2, .. 2 * WeldMaxCoord
WeldMaxCoord == 2

WeldVerts == 0 .. WeldNumVertices - 1

WeldCoords == { 2 * x : x \in 0 .. WeldMaxCoord }

\* unit normals of the welded mesh, at 0, 36.87 and 53.13 degrees
WeldNormals == { <<25, 0>>, <<20, 15>>, <<15, 20>> }

\* weld angles (see AngleWithin): 0, 36.87 and 90 degrees, and a negative angle
WeldAngles == {5, 4, 0, 6}

\* the member test of the inner loop without the position test
WeldMatchAnyDistance(verts, normals, checked, vi, i, n, weld_angle) ==
    /\ vi # i
    /\ ~checked[i]
    /\ AngleWithin(n, normals[i], weld_angle)

\* the member test of an inner loop that starts after the seed
WeldMatchAfterSeed(verts, normals, checked, vi, i, n, weld_angle) ==
    /\ vi < i
    /\ ~checked[i]
    /\ Abs(verts[i] - verts[vi]) < npEpsilon
    /\ AngleWithin(n, normals[i], weld_angle)

\* the member test of the inner loop: is vertex i put in the group of seed vi
WeldMatch(verts, normals, checked, vi, i, n, weld_angle) ==
    /\ vi # i
    /\ ~checked[i]
    /\ Abs(verts[i] - verts[vi]) < npEpsilon
    /\ AngleWithin(n, normals[i], weld_angle)

\* the inner loop over i of seed acc.vi; acc.n is the running normal
RECURSIVE WeldScan(_, _, _, _)
WeldScan(m, normals, acc, i) ==
    IF i = WeldNumVertices THEN acc
    ELSE IF WeldMatch(m.vertices, normals, acc.checked, acc.vi, i, acc.n, m.weld_angle)
         THEN WeldScan(m, normals,
                       [acc EXCEPT !.n = IF m.smoothing THEN VAdd(@, normals[i]) ELSE @,
                                   !.shared = Append(@, i),
                                   !.checked[i] = TRUE],
                       i + 1)
         ELSE WeldScan(m, normals, acc, i + 1)

\* the vertices listed in shared
SharedSet(shared) == { shared[k] : k \in 1 .. Len(shared) }

\* the outer loop over vi; st is the normal buffer, checked, the groups
\* welded so far (seed and shared list) and ret
RECURSIVE WeldLoop(_, _, _)
WeldLoop(m, st, vi) ==
    IF vi = WeldNumVertices THEN st
    ELSE IF st.checked[vi] THEN WeldLoop(m, st, vi + 1)
    ELSE IF (IF m.mask THEN m.selection[vi] ELSE One) = 0 THEN WeldLoop(m, st, vi + 1)
    ELSE LET sc == WeldScan(m, st.normals,
                            [vi |-> vi, n |-> st.normals[vi], shared |-> <<>>,
                             checked |-> st.checked], 0)
             n == normalize(sc.n)
         IN IF sc.shared # <<>>
            THEN WeldLoop(m,
                          [normals |-> [v \in WeldVerts |->
                                          IF v = vi \/ v \in SharedSet(sc.shared)
                                          THEN n ELSE st.normals[v]],
                           checked |-> sc.checked,
                           groups |-> Append(st.groups, [seed |-> vi, shared |-> sc.shared]),
                           ret |-> st.ret + 1],
                          vi + 1)
            ELSE WeldLoop(m, st, vi + 1)

\* npWeld on mesh m: the final normal buffer, checked, the groups and ret
WeldRun(m) ==
    WeldLoop(m, [normals |-> m.normals, checked |-> [v \in WeldVerts |-> FALSE],
                 groups |-> <<>>, ret |-> 0], 0)

\* the mesh with its vertices stored in the order perm: slot j holds vertex perm[j]
WeldPermuted(m, perm) ==
    [m EXCEPT !.vertices = [j \in WeldVerts |-> m.vertices[perm[j]]],
              !.normals = [j \in WeldVerts |-> m.normals[perm[j]]],
              !.selection = [j \in WeldVerts |-> m.selection[perm[j]]]]

\* the identity and the exchanges of two neighbouring slots
WeldPerms ==
    { [j \in WeldVerts |-> j] } \cup
    { [j \in WeldVerts |-> IF j = a THEN a + 1 ELSE IF j = a + 1 THEN a ELSE j] :
        a \in 0 .. WeldNumVertices - 2 }

\* selection buffers: the first j vertices unselected, the others selected
WeldSelections == { [v \in WeldVerts |-> IF v < j THEN 0 ELSE One] : j \in 0 .. WeldNumVertices }

\* meshes with all vertices at one position and any normals, and meshes with
\* any positions whose normals agree except possibly for vertex 0
WeldMeshes ==
    { [vertices |-> [v \in WeldVerts |-> 0], normals |-> nr] : nr \in [WeldVerts -> WeldNormals] }
    \cup
    { [vertices |-> ps, normals |-> [v \in WeldVerts |-> IF v = 0 THEN n0 ELSE <<25, 0>>]] :
        ps \in [WeldVerts -> WeldCoords], n0 \in { <<25, 0>>, <<20, 15>> } }

InitWeld ==
    /\ \E g \in WeldMeshes, sel \in WeldSelections, smoothing \in BOOLEAN,
          weld_angle \in WeldAngles, mask \in BOOLEAN, perm \in WeldPerms :
         /\ (~mask => sel = [v \in WeldVerts |-> One])
         /\ ((\E v \in WeldVerts : g.vertices[v] # 0) => perm = [j \in WeldVerts |-> j])
         /\ weld = [phase |-> "call", vertices |-> g.vertices, normals |-> g.normals,
                    selection |-> sel, smoothing |-> smoothing, weld_angle |-> weld_angle,
                    mask |-> mask, perm |-> perm]
    /\ selection = <<>> /\ ret = 0
    /\ ins = Idle /\ brush = Idle /\ mir = Idle /\ skin = Idle /\ proj = Idle
    /\ call = Idle /\ pick = Idle /\ smooth = Idle /\ terrain = Idle /\ weld2 = Idle
    /\ edit = Idle /\ far = Idle /\ paint = Idle

\* npWeld(model, smoothing, weld_angle, mask), and the same call on the mesh
\* stored in the order weld.perm
npWeld ==
    /\ weld.phase = "call"
    /\ weld' = [phase |-> "done", vertices |-> weld.vertices, normals |-> weld.normals,
                selection |-> weld.selection, smoothing |-> weld.smoothing,
                weld_angle |-> weld.weld_angle, mask |-> weld.mask, perm |-> weld.perm,
                out |-> WeldRun(weld),
                outp |-> WeldRun(WeldPermuted(weld, weld.perm))]
    /\ UNCHANGED notWeld

NextWeld == npWeld

SpecWeld == InitWeld /\ [][NextWeld]_vars

\* the weld groups of a run as sets of vertices of the unpermuted mesh
WeldGroups(o, perm) ==
    { {perm[o.groups[k].seed]} \cup { perm[x] : x \in SharedSet(o.groups[k].shared) } :
        k \in 1 .. Len(o.groups) }

WeldIdentity == [j \in WeldVerts |-> j]

WeldDistance(a, b) == Abs(weld.vertices[a] - weld.vertices[b])

\* C4: two coincident vertices (distance < epsilon) with identical normals
\* before npWeld with weld_angle >= 0 have equal normals when it returns.
WeldCoincidentEqual ==
    (weld.phase = "done" /\ weld.weld_angle # 6) =>
        \A a, b \in WeldVerts :
            (WeldDistance(a, b) < npEpsilon /\ weld.normals[a] = weld.normals[b])
                => weld.out.normals[a] = weld.out.normals[b]

\* C5 as stated: two vertices separated by more than epsilon are never placed
\* in the same weld group.
WeldNeverGroupsSeparated ==
    weld.phase = "done" =>
        \A g \in WeldGroups(weld.out, WeldIdentity) :
            \A a, b \in g : WeldDistance(a, b) <= npEpsilon

\* C5 amended: a vertex is placed in a weld group only if it is less than
\* epsilon from the seed of the group, for every weld_angle; two vertices of
\* one group are therefore less than 2 * epsilon apart.
WeldMembersNearSeed ==
    weld.phase = "done" =>
        \A k \in 1 .. Len(weld.out.groups) :
            LET g == weld.out.groups[k]
            IN /\ \A x \in SharedSet(g.shared) : WeldDistance(g.seed, x) < npEpsilon
               /\ \A x, y \in SharedSet(g.shared) : WeldDistance(x, y) < 2 * npEpsilon

\* a group holds two members that are more than epsilon apart
WeldMembersNearSeedWitness ==
    /\ weld.phase = "done"
    /\ \E k \in 1 .. Len(weld.out.groups) :
         \E x, y \in SharedSet(weld.out.groups[k].shared) : WeldDistance(x, y) > npEpsilon

\* all positions pairwise coincident
WeldAllCoincident == \A a, b \in WeldVerts : WeldDistance(a, b) < npEpsilon

\* the run on the permuted mesh formed the same groups and returned the same count
WeldSameGrouping ==
    /\ WeldGroups(weld.outp, weld.perm) = WeldGroups(weld.out, WeldIdentity)
    /\ weld.outp.ret = weld.out.ret

\* C6 as stated: for pairwise-coincident positions npWeld forms the same
\* groups and returns the same count for every order of the vertices.
WeldOrderIndependent ==
    (weld.phase = "done" /\ WeldAllCoincident) => WeldSameGrouping

\* C6 amended: for pairwise-coincident positions whose normals are pairwise
\* within weld_angle, and smoothing off, npWeld forms the same groups and
\* returns the same count for every order of the vertices.
WeldOrderIndependentWithinAngle ==
    (/\ weld.phase = "done"
     /\ WeldAllCoincident
     /\ ~weld.smoothing
     /\ \A a, b \in WeldVerts :
          AngleWithin(weld.normals[a], weld.normals[b], weld.weld_angle))
    => WeldSameGrouping

\* two neighbouring vertices with different normals, one of them unselected
\* under mask, were exchanged, and both orders welded everything into one group
WeldOrderWitness ==
    /\ weld.phase = "done"
    /\ WeldAllCoincident
    /\ ~weld.smoothing
    /\ weld.mask
    /\ \A a, b \in WeldVerts :
          AngleWithin(weld.normals[a], weld.normals[b], weld.weld_angle)
    /\ \E j \in WeldVerts :
          /\ weld.perm[j] # j
          /\ weld.normals[weld.perm[j]] # weld.normals[j]
          /\ weld.selection[weld.perm[j]] # weld.selection[j]
    /\ weld.out.ret = 1
    /\ weld.outp.ret = 1
    /\ WeldGroups(weld.out, WeldIdentity) = { WeldVerts }

\* the vertices of the k-th weld group of the run: the seed and its members
WeldGroupOf(k) == {weld.out.groups[k].seed} \cup SharedSet(weld.out.groups[k].shared)

\* C18: when npWeld returns, the seed and the members of every counted weld
\* group are marked processed, no vertex belongs to two weld groups, and all
\* vertices of a group have the same normal in the final buffer.
WeldGroupsConsistent ==
    weld.phase = "done" =>
        /\ \A k \in 1 .. Len(weld.out.groups) :
             /\ \A v \in WeldGroupOf(k) : weld.out.checked[v]
             /\ \A a, b \in WeldGroupOf(k) : weld.out.normals[a] = weld.out.normals[b]
        /\ \A k, l \in 1 .. Len(weld.out.groups) :
             k # l => WeldGroupOf(k) \cap WeldGroupOf(l) = {}

----------------------------------------------------------------------------
(* npBuildMirroringRelation and npApplyMirroring                           *)

\* the variables the mirroring calls leave alone
notMirror == <<selection, ret, ins, brush, weld, skin, proj, call, pick, smooth, terrain, weld2, edit, far, paint>>

\* number of vertices of the mirrored mesh
MirNumVertices == 3

\* largest epsilon a caller passes, in units of the coordinate grid
MirMaxEpsilon == 2

\* default tolerance of near_equal (math library), in units of the grid
muEpsilon == 2

MirVerts == 0 .. MirNumVertices - 1

VSub(a, b) == <<a[1] - b[1], a[2] - b[2]>>

VScale(a, k) == <<a[1] * k, a[2] * k>>

\* plane_distance of the math library: signed distance to the plane through
\* the origin with unit normal plane
plane_distance(v, plane) == dot(v, plane)

\* plane_mirror of the math library
plane_mirror(v, plane) == VSub(v, VScale(plane, 2 * dot(v, plane)))

\* near_equal(a, b) of the math library with its default tolerance
near_equal(a, b) == Abs(a - b) < muEpsilon

\* the mirror plane: the plane x = 0
MirPlane == <<1, 0>>

\* positions on the negative side, on the positive side, next to the plane
\* on either side, and on the plane
MirPositions == { <<-2, 0>>, <<-2, 1>>, <<2, 0>>, <<-1, 0>>, <<1, 0>>, <<0, 0>> }

\* tangents: a direction and the handedness w
MirTangents == { [dir |-> <<25, 0>>, w |-> 1], [dir |-> <<0, 25>>, w |-> -1] }

\* the normal of a vertex of a symmetric surface: tilted to its side of the plane
MirNormalAt(pos) ==
    IF pos[1] < 0 THEN <<-7, 24>> ELSE IF pos[1] > 0 THEN <<7, 24>> ELSE <<0, 25>>

\* is vertex i a mirror partner of vertex vi (lines 1040-1045)
MirrorMatch(m, vi, i) ==
    LET d2 == plane_distance(m.vertices[i], m.mirror_plane)
        mp == VSub(m.vertices[i], VScale(m.mirror_plane, d2 * 2))
        df == VSub(m.vertices[vi], mp)
    IN /\ d2 > 0
       /\ dot(df, df) < m.epsilon * m.epsilon
       /\ 100 * dot(m.normals[vi], plane_mirror(m.normals[i], m.mirror_plane))
             >= 99 * NormalLen * NormalLen

\* the search keeping the last match instead of stopping at the first
MirrorRelationOfLast(m, vi) ==
    LET d1 == plane_distance(m.vertices[vi], m.mirror_plane)
        cand == { i \in MirVerts : MirrorMatch(m, vi, i) }
    IN IF d1 < 0
       THEN IF cand = {} THEN -1 ELSE CHOOSE i \in cand : \A j \in cand : i >= j
       ELSE IF near_equal(d1, 0) THEN -2 ELSE -1

\* the task of vertex vi in npBuildMirroringRelation: the value of relation[vi]
MirrorRelationOf(m, vi) ==
    LET d1 == plane_distance(m.vertices[vi], m.mirror_plane)
        cand == { i \in MirVerts : MirrorMatch(m, vi, i) }
    IN IF d1 < 0
       THEN IF cand = {} THEN -1 ELSE CHOOSE i \in cand : \A j \in cand : i <= j
       ELSE IF near_equal(d1, 0) THEN -2 ELSE -1

InitMirror ==
    /\ \E ps \in [MirVerts -> MirPositions], ts \in [MirVerts -> MirTangents],
          epsilon \in 1 .. MirMaxEpsilon :
         mir = [phase |-> "start", mirror_plane |-> MirPlane, epsilon |-> epsilon,
                vertices |-> ps, normals |-> [v \in MirVerts |-> MirNormalAt(ps[v])],
                tangents |-> ts]
    /\ selection = <<>> /\ ret = 0
    /\ ins = Idle /\ brush = Idle /\ weld = Idle /\ skin = Idle /\ proj = Idle
    /\ call = Idle /\ pick = Idle /\ smooth = Idle /\ terrain = Idle /\ weld2 = Idle
    /\ edit = Idle /\ far = Idle /\ paint = Idle

\* npBuildMirroringRelation: every vertex task writes its own relation slot
\* from the unchanged position and normal buffers; ret counts the partners
npBuildMirroringRelation ==
    /\ mir.phase = "start"
    /\ LET rel == [vi \in MirVerts |-> MirrorRelationOf(mir, vi)]
       IN mir' = [phase |-> "built", mirror_plane |-> mir.mirror_plane,
                  epsilon |-> mir.epsilon, vertices |-> mir.vertices,
                  normals |-> mir.normals, tangents |-> mir.tangents,
                  relation |-> rel,
                  ret |-> Cardinality({ vi \in MirVerts : rel[vi] >= 0 }),
                  vertices0 |-> mir.vertices, normals0 |-> mir.normals,
                  tangents0 |-> mir.tangents]
    /\ UNCHANGED notMirror

\* vertices[ri] = plane_mirror(vertices[vi], mirror_plane)
MirrorWrite(buf, vi, ri, plane) == [buf EXCEPT ![ri] = plane_mirror(buf[vi], plane)]

\* the position loop of npApplyMirroring from vertex vi on
RECURSIVE MirrorPositions(_, _, _, _)
MirrorPositions(buf, relation, plane, vi) ==
    IF vi = MirNumVertices THEN buf
    ELSE LET ri == relation[vi]
         IN IF ri >= 0
            THEN MirrorPositions(MirrorWrite(buf, vi, ri, plane), relation, plane, vi + 1)
            ELSE IF ri = -2
            THEN MirrorPositions(
                     [buf EXCEPT ![vi] = VSub(buf[vi], VScale(plane, plane_distance(buf[vi], plane)))],
                     relation, plane, vi + 1)
            ELSE MirrorPositions(buf, relation, plane, vi + 1)

\* the normal loop (and, on the directions, the tangent loop) from vertex vi on
RECURSIVE MirrorDirections(_, _, _, _)
MirrorDirections(buf, relation, plane, vi) ==
    IF vi = MirNumVertices THEN buf
    ELSE IF relation[vi] >= 0
         THEN MirrorDirections(MirrorWrite(buf, vi, relation[vi], plane), relation, plane, vi + 1)
         ELSE MirrorDirections(buf, relation, plane, vi + 1)

\* npApplyMirroring on the buffers the relation was built from
npApplyMirroring ==
    /\ mir.phase = "built"
    /\ LET dirs == MirrorDirections([v \in MirVerts |-> mir.tangents[v].dir],
                                    mir.relation, mir.mirror_plane, 0)
       IN mir' = [mir EXCEPT
                    !.phase = "applied",
                    !.vertices = MirrorPositions(mir.vertices, mir.relation, mir.mirror_plane, 0),
                    !.normals = MirrorDirections(mir.normals, mir.relation, mir.mirror_plane, 0),
                    !.tangents = [v \in MirVerts |-> [dir |-> dirs[v], w |-> mir.tangents[v].w]]]
    /\ UNCHANGED notMirror

NextMirror ==
    \/ npBuildMirroringRelation
    \/ npApplyMirroring

SpecMirror == InitMirror /\ [][NextMirror]_vars

\* the mirror image of v in the mirror plane
MirImage(v) ==
    <<v[1] - 2 * (v[1] * mir.mirror_plane[1] + v[2] * mir.mirror_plane[2]) * mir.mirror_plane[1],
      v[2] - 2 * (v[1] * mir.mirror_plane[1] + v[2] * mir.mirror_plane[2]) * mir.mirror_plane[2]>>

\* the attributes of vertex vi are what they were before npApplyMirroring
MirUnchanged(vi) ==
    /\ mir.vertices[vi] = mir.vertices0[vi]
    /\ mir.normals[vi] = mir.normals0[vi]
    /\ mir.tangents[vi] = mir.tangents0[vi]

\* C7 as stated: after build and one apply, for every vi with relation[vi] =
\* r >= 0 the position, normal and tangent direction of r are the mirror
\* images of those of vi, and vi itself is unchanged.
MirrorPartnerIsImage ==
    mir.phase = "applied" =>
        \A vi \in MirVerts :
            mir.relation[vi] >= 0 =>
                /\ mir.vertices[mir.relation[vi]] = MirImage(mir.vertices0[vi])
                /\ mir.normals[mir.relation[vi]] = MirImage(mir.normals0[vi])
                /\ mir.tangents[mir.relation[vi]].dir = MirImage(mir.tangents0[vi].dir)
                /\ MirUnchanged(vi)

\* What the apply does guarantee: every vi with relation[vi] = r >= 0 is
\* itself unchanged, and if vi is the last vertex with partner r the normal
\* and the tangent direction of r are the mirror images of those of vi, and so
\* is the position of r unless r itself is tagged -2.
MirrorLastSourceIsImage ==
    mir.phase = "applied" =>
        \A vi \in MirVerts :
            mir.relation[vi] >= 0 =>
                /\ MirUnchanged(vi)
                /\ (\A vj \in MirVerts : vj > vi => mir.relation[vj] # mir.relation[vi]) =>
                      /\ mir.normals[mir.relation[vi]] = MirImage(mir.normals0[vi])
                      /\ mir.tangents[mir.relation[vi]].dir = MirImage(mir.tangents0[vi].dir)
                      /\ mir.relation[mir.relation[vi]] # -2 =>
                            mir.vertices[mir.relation[vi]] = MirImage(mir.vertices0[vi])

\* two vertices share one partner, and the partner was moved and its tangent
\* turned by the apply
MirrorSharedPartnerWitness ==
    /\ mir.phase = "applied"
    /\ \E vi, vj \in MirVerts :
         /\ vi < vj
         /\ mir.relation[vi] >= 0
         /\ mir.relation[vj] = mir.relation[vi]
         /\ mir.vertices[mir.relation[vj]] = MirImage(mir.vertices0[vj])
         /\ mir.vertices[mir.relation[vj]] # mir.vertices0[mir.relation[vj]]
         /\ mir.tangents[mir.relation[vj]].dir # mir.tangents0[mir.relation[vj]].dir

\* C15: after npBuildMirroringRelation every vertex whose signed distance to
\* the mirror plane is within the tolerance of zero, on either side, has
\* relation[vi] = -2 (and so no mirror partner).
MirrorNearPlaneTagged ==
    mir.phase = "built" =>
        \A vi \in MirVerts :
            near_equal(plane_distance(mir.vertices[vi], mir.mirror_plane), 0) =>
                mir.relation[vi] = -2

\* C17: after npBuildMirroringRelation and npApplyMirroring every vertex
\* tagged -2 lies on the mirror plane, whatever the index order.
MirrorTaggedOnPlane ==
    mir.phase = "applied" =>
        \A vi \in MirVerts :
            mir.relation[vi] = -2 =>
                plane_distance(mir.vertices[vi], mir.mirror_plane) = 0

(* npBuildMirroringRelation, task by task.  Every vertex task of the second *)
(* parallel_for searches its partner in the read-only position and normal  *)
(* buffers, counts it in the atomic ret, and stores its relation slot.      *)

\* content of a relation slot no task has stored yet
MirUnset == -3

InitMirrorBuild ==
    /\ \E ps \in [MirVerts -> MirPositions], epsilon \in 1 .. MirMaxEpsilon,
          relation_null \in BOOLEAN :
         mir = [phase |-> "building", mirror_plane |-> MirPlane, epsilon |-> epsilon,
                vertices |-> ps, normals |-> [v \in MirVerts |-> MirNormalAt(ps[v])],
                relation_null |-> relation_null,
                relation |-> [v \in MirVerts |-> MirUnset],
                rel |-> [v \in MirVerts |-> MirUnset],
                pc |-> [v \in MirVerts |-> "search"], ret |-> 0]
    /\ selection = <<>> /\ ret = 0
    /\ ins = Idle /\ brush = Idle /\ weld = Idle /\ skin = Idle /\ proj = Idle
    /\ call = Idle /\ pick = Idle /\ smooth = Idle /\ terrain = Idle /\ weld2 = Idle
    /\ edit = Idle /\ far = Idle /\ paint = Idle

\* if (!relation) { return 0; }
MirrorBuildNull ==
    /\ mir.phase = "building"
    /\ mir.relation_null
    /\ mir' = [mir EXCEPT !.phase = "returned"]
    /\ UNCHANGED notMirror

\* the task of vertex vi up to the store: rel is found and counted in ret
MirrorTaskSearch(vi) ==
    /\ mir.phase = "building"
    /\ ~mir.relation_null
    /\ mir.pc[vi] = "search"
    /\ \E rel \in {MirrorRelationOf(mir, vi)} :
         mir' = [mir EXCEPT !.rel[vi] = rel,
                            !.ret = IF rel >= 0 THEN @ + 1 ELSE @,
                            !.pc[vi] = "store"]
    /\ UNCHANGED notMirror

\* relation[vi] = rel
MirrorTaskStore(vi) ==
    /\ mir.phase = "building"
    /\ mir.pc[vi] = "store"
    /\ mir' = [mir EXCEPT !.relation[vi] = mir.rel[vi], !.pc[vi] = "done"]
    /\ UNCHANGED notMirror

\* all tasks are over: return ret
MirrorBuildReturn ==
    /\ mir.phase = "building"
    /\ \A vi \in MirVerts : mir.pc[vi] = "done"
    /\ mir' = [mir EXCEPT !.phase = "returned"]
    /\ UNCHANGED notMirror

NextMirrorBuild ==
    \/ MirrorBuildNull
    \/ \E vi \in MirVerts : MirrorTaskSearch(vi)
    \/ \E vi \in MirVerts : MirrorTaskStore(vi)
    \/ MirrorBuildReturn

SpecMirrorBuild == InitMirrorBuild /\ [][NextMirrorBuild]_vars

\* vertex i lies on the positive side, its mirrored position is within
\* epsilon of vertex vi and its mirrored normal has dot >= 0.99 with vi's
MirIsPartner(vi, i) ==
    LET df == <<mir.vertices[vi][1] - MirImage(mir.vertices[i])[1],
                mir.vertices[vi][2] - MirImage(mir.vertices[i])[2]>>
        n1 == mir.normals[vi]
        n2 == MirImage(mir.normals[i])
    IN /\ mir.vertices[i][1] * mir.mirror_plane[1] + mir.vertices[i][2] * mir.mirror_plane[2] > 0
       /\ df[1] * df[1] + df[2] * df[2] < mir.epsilon * mir.epsilon
       /\ 100 * (n1[1] * n2[1] + n1[2] * n2[2]) >= 99 * NormalLen * NormalLen

\* C16: whatever the interleaving of the vertex tasks, when
\* npBuildMirroringRelation returns with a relation buffer, relation[vi] of a
\* vertex with negative plane distance is the lowest partner index or -1 if
\* there is none, every entry is -2, -1 or a vertex index, and the returned
\* count is the number of entries >= 0.
MirrorBuildDeterministic ==
    (mir.phase = "returned" /\ ~mir.relation_null) =>
        /\ \A vi \in MirVerts :
             mir.vertices[vi][1] * mir.mirror_plane[1] + mir.vertices[vi][2] * mir.mirror_plane[2] < 0 =>
                IF \E i \in MirVerts : MirIsPartner(vi, i)
                THEN /\ mir.relation[vi] \in MirVerts
                     /\ MirIsPartner(vi, mir.relation[vi])
                     /\ \A i \in MirVerts : MirIsPartner(vi, i) => mir.relation[vi] <= i
                ELSE mir.relation[vi] = -1
        /\ \A vi \in MirVerts : mir.relation[vi] \in {-2, -1} \cup MirVerts
        /\ mir.ret = Cardinality({ vi \in MirVerts : mir.relation[vi] >= 0 })

\* a vertex with two partners got the lower one, and a vertex without
\* partner and a vertex on the plane were tagged
MirrorBuildWitness ==
    /\ mir.phase = "returned"
    /\ ~mir.relation_null
    /\ \E vi \in MirVerts :
         /\ mir.relation[vi] >= 0
         /\ \E i \in MirVerts : i > mir.relation[vi] /\ MirIsPartner(vi, i)
    /\ mir.ret >= 1

----------------------------------------------------------------------------
(* npApplySkinning and npApplyReverseSkinning                              *)

\* the variables the skinning calls leave alone
notSkin == <<selection, ret, ins, brush, weld, mir, proj, call, pick, smooth, terrain, weld2, edit, far, paint>>

\* number of skinned vertices
SkinNumVertices == 2

\* number of bones of the skin
SkinNumBones == 2

\* influences per vertex (Weights4)
NumInfluence == 4

\* the weight 1.0: bone weights are counted in quarters
WeightOne == 4

\* the length 1.0 of the position grid: positions stay exact through two blends
PointOne == WeightOne * WeightOne

SkinVerts == 0 .. SkinNumVertices - 1

SkinBones == 0 .. SkinNumBones - 1

\* an affine transform (float4x4 of the math library, row-vector convention):
\* m is the linear part, t the translation row
Transform(m, t) == [m |-> m, t |-> t]

identity == Transform(<< <<1, 0>>, <<0, 1>> >>, <<0, 0>>)

\* a quarter turn
Rot90 == Transform(<< <<0, 1>>, <<-1, 0>> >>, <<0, 0>>)

\* a translation by one unit along x
Trans == Transform(<< <<1, 0>>, <<0, 1>> >>, <<PointOne, 0>>)

\* mul_v of the math library: the linear part applied to a direction
mul_v(T, v) ==
    << T.m[1][1] * v[1] + T.m[2][1] * v[2], T.m[1][2] * v[1] + T.m[2][2] * v[2] >>

\* mul_p of the math library on an affine transform: a point
mul_p4(T, q) == VAdd(mul_v(T, q), T.t)

\* float4x4 operator*: A first, then B
MatMul(A, B) ==
    Transform(<< mul_v(B, A.m[1]), mul_v(B, A.m[2]) >>, mul_p4(B, A.t))

\* invert of the math library, on transforms of determinant 1 or -1
invert(T) ==
    LET det == T.m[1][1] * T.m[2][2] - T.m[1][2] * T.m[2][1]
        im == << << det * T.m[2][2], -det * T.m[1][2] >>,
                 << -det * T.m[2][1], det * T.m[1][1] >> >>
        inv == Transform(im, <<0, 0>>)
    IN Transform(im, VScale(mul_v(inv, T.t), -1))

\* value * weight with the weight in quarters
wmul(x, w) == (x * w) \div WeightOne

\* the influence lists of a vertex: bone indices and bone weights
SkinWeights ==
    { [indices |-> <<0, 0, 0, 0>>, weights |-> <<4, 0, 0, 0>>],
      [indices |-> <<0, 1, 0, 0>>, weights |-> <<2, 2, 0, 0>>],
      [indices |-> <<0, 1, 0, 1>>, weights |-> <<1, 1, 1, 1>>],
      [indices |-> <<1, 1, 0, 0>>, weights |-> <<3, 1, 0, 0>>],
      [indices |-> <<1, 0, 0, 0>>, weights |-> <<2, 1, 0, 0>>],
      [indices |-> <<0, 1, 0, 0>>, weights |-> <<4, 4, 0, 0>>] }

\* positions of the skinned vertices
SkinPoints == { <<PointOne, 0>>, <<PointOne, 2 * PointOne>> }

\* the buffers the caller passes: all three streams, or positions only
SkinStreams == { {"points", "normals", "tangents"}, {"points"} }

\* the forward poses of npApplySkinning
ForwardPoses(s) ==
    LET iroot == invert(s.root)
    IN [bi \in SkinBones |-> MatMul(MatMul(s.bindposes[bi], s.bones[bi]), iroot)]

\* the poses of npApplyReverseSkinning
ReversePoses(s) ==
    LET iroot == invert(s.root)
    IN [bi \in SkinBones |-> invert(MatMul(MatMul(s.bindposes[bi], s.bones[bi]), iroot))]

\* the first influence alone, the other influences dropped
BlendPointFirstOnly(poses, w, q, bi) ==
    LET x == mul_p4(poses[w.indices[bi]], q)
    IN <<wmul(x[1], w.weights[bi]), wmul(x[2], w.weights[bi])>>

\* rp += mul_p(poses[w.indices[bi]], p) * w.weights[bi], from influence bi on
RECURSIVE BlendPoint(_, _, _, _)
BlendPoint(poses, w, q, bi) ==
    IF bi > NumInfluence THEN <<0, 0>>
    ELSE LET x == mul_p4(poses[w.indices[bi]], q)
         IN VAdd(<<wmul(x[1], w.weights[bi]), wmul(x[2], w.weights[bi])>>,
                 BlendPoint(poses, w, q, bi + 1))

\* rn += mul_v(poses[w.indices[bi]], n) * w.weights[bi], from influence bi on
RECURSIVE BlendVector(_, _, _, _)
BlendVector(poses, w, n, bi) ==
    IF bi > NumInfluence THEN <<0, 0>>
    ELSE VAdd(VScale(mul_v(poses[w.indices[bi]], n), w.weights[bi]),
              BlendVector(poses, w, n, bi + 1))

\* SkinningImpl: the three streams; a stream without buffers is skipped
SkinningImpl(poses, weights, streams, ipoints, inormals, itangents, opoints, onormals, otangents) ==
    [points |-> IF "points" \in streams
                THEN [vi \in SkinVerts |-> BlendPoint(poses, weights[vi], ipoints[vi], 1)]
                ELSE opoints,
     normals |-> IF "normals" \in streams
                 THEN [vi \in SkinVerts |->
                          normalize(BlendVector(poses, weights[vi], inormals[vi], 1))]
                 ELSE onormals,
     tangents |-> IF "tangents" \in streams
                  THEN [vi \in SkinVerts |->
                           [dir |-> BlendVector(poses, weights[vi], itangents[vi].dir, 1),
                            w |-> itangents[vi].w * SumSeq(weights[vi].weights)]]
                  ELSE otangents]

\* output buffers as the caller allocates them
SkinZeroPoints == [vi \in SkinVerts |-> <<0, 0>>]

SkinZeroTangents == [vi \in SkinVerts |-> [dir |-> <<0, 0>>, w |-> 0]]

InitSkin ==
    /\ \E bind \in {identity, Trans}, bones \in [SkinBones -> {identity, Rot90}],
          root \in {identity, Trans}, weights \in [SkinVerts -> SkinWeights],
          ipoints \in [SkinVerts -> SkinPoints], streams \in SkinStreams :
         skin = [phase |-> "start", bindposes |-> [bi \in SkinBones |-> bind],
                 bones |-> bones, root |-> root, weights |-> weights, streams |-> streams,
                 ipoints |-> ipoints,
                 inormals |-> [vi \in SkinVerts |-> <<0, NormalLen>>],
                 itangents |-> [vi \in SkinVerts |-> [dir |-> <<NormalLen, 0>>, w |-> WeightOne]],
                 opoints |-> SkinZeroPoints, onormals |-> SkinZeroPoints,
                 otangents |-> SkinZeroTangents]
    /\ selection = <<>> /\ ret = 0
    /\ ins = Idle /\ brush = Idle /\ weld = Idle /\ mir = Idle /\ proj = Idle
    /\ call = Idle /\ pick = Idle /\ smooth = Idle /\ terrain = Idle /\ weld2 = Idle
    /\ edit = Idle /\ far = Idle /\ paint = Idle

\* npApplySkinning from the i-buffers into the o-buffers
npApplySkinning ==
    /\ skin.phase = "start"
    /\ \E poses \in {ForwardPoses(skin)} :
       \E o \in {SkinningImpl(poses, skin.weights, skin.streams,
                              skin.ipoints, skin.inormals, skin.itangents,
                              skin.opoints, skin.onormals, skin.otangents)} :
          skin' = [skin EXCEPT !.phase = "skinned", !.opoints = o.points,
                               !.onormals = o.normals, !.otangents = o.tangents]
    /\ UNCHANGED notSkin

\* npApplyReverseSkinning on the result of npApplySkinning, with the same skin,
\* into a third set of buffers
npApplyReverseSkinning ==
    /\ skin.phase = "skinned"
    /\ \E poses \in {ReversePoses(skin)} :
       \E o \in {SkinningImpl(poses, skin.weights, skin.streams,
                              skin.opoints, skin.onormals, skin.otangents,
                              SkinZeroPoints, SkinZeroPoints, SkinZeroTangents)} :
          skin' = [phase |-> "reversed", bindposes |-> skin.bindposes, bones |-> skin.bones,
                   root |-> skin.root, weights |-> skin.weights, streams |-> skin.streams,
                   ipoints |-> skin.ipoints, inormals |-> skin.inormals,
                   itangents |-> skin.itangents, opoints |-> skin.opoints,
                   onormals |-> skin.onormals, otangents |-> skin.otangents,
                   rpoints |-> o.points, rnormals |-> o.normals, rtangents |-> o.tangents]
    /\ UNCHANGED notSkin

NextSkin ==
    \/ npApplySkinning
    \/ npApplyReverseSkinning

SpecSkin == InitSkin /\ [][NextSkin]_vars

\* bindposes, bones and root are all the identity
SkinAllIdentity ==
    /\ skin.root = identity
    /\ \A bi \in SkinBones : skin.bindposes[bi] = identity /\ skin.bones[bi] = identity

\* C8 as stated: with identity bindposes, bones and root, npApplySkinning
\* writes opoints[vi] = ipoints[vi] for every vertex, whatever the weights.
SkinIdentityKeepsPoints ==
    (skin.phase = "skinned" /\ SkinAllIdentity) =>
        \A vi \in SkinVerts : skin.opoints[vi] = skin.ipoints[vi]

\* C8 amended: with identity bindposes, bones and root, npApplySkinning writes
\* opoints[vi] = ipoints[vi] for every vertex whose weights sum to 1.
SkinIdentityKeepsUnitWeightPoints ==
    (skin.phase = "skinned" /\ SkinAllIdentity) =>
        \A vi \in SkinVerts :
            SumSeq(skin.weights[vi].weights) = WeightOne =>
                skin.opoints[vi] = skin.ipoints[vi]

\* an identity skin, and a vertex blended from several bones with weights
\* that sum to 1, next to a vertex whose weights do not
SkinIdentityWitness ==
    /\ skin.phase = "skinned"
    /\ SkinAllIdentity
    /\ \E vi, vj \in SkinVerts :
         /\ SumSeq(skin.weights[vi].weights) = WeightOne
         /\ skin.weights[vi].weights[2] > 0
         /\ skin.weights[vi].indices[1] # skin.weights[vi].indices[2]
         /\ skin.opoints[vi] = skin.ipoints[vi]
         /\ SumSeq(skin.weights[vj].weights) # WeightOne
         /\ skin.opoints[vj] # skin.ipoints[vj]

\* C9 as stated: npApplySkinning then npApplyReverseSkinning with the same
\* skin (all poses invertible) returns the original position of every vertex.
SkinRoundTrip ==
    skin.phase = "reversed" =>
        \A vi \in SkinVerts : skin.rpoints[vi] = skin.ipoints[vi]

\* v has length len up to the rounding of its components
SkinIsUnit(v, len) ==
    /\ dot(v, v) >= (len - 1) * (len - 1)
    /\ dot(v, v) <= (len + 1) * (len + 1)

\* the outputs of one skinning call: o is the written buffers, scale the
\* fixed-point length 1.0 of a tangent direction in them
SkinOutputs ==
    IF skin.phase = "skinned"
    THEN [points |-> skin.opoints, normals |-> skin.onormals,
          tangents |-> skin.otangents, scale |-> NormalLen * WeightOne]
    ELSE [points |-> skin.rpoints, normals |-> skin.rnormals,
          tangents |-> skin.rtangents, scale |-> NormalLen * WeightOne * WeightOne]

\* C27 as stated: npApplySkinning and npApplyReverseSkinning write a unit
\* normal and a unit tangent for every vertex of a stream that has both its
\* buffers, and leave the output buffer of a stream without buffers as it was.
SkinVectorsRenormalized ==
    skin.phase \in {"skinned", "reversed"} =>
        /\ "normals" \in skin.streams =>
               \A vi \in SkinVerts : SkinIsUnit(SkinOutputs.normals[vi], NormalLen)
        /\ "tangents" \in skin.streams =>
               \A vi \in SkinVerts :
                   SkinIsUnit(SkinOutputs.tangents[vi].dir, SkinOutputs.scale)
        /\ "normals" \notin skin.streams => SkinOutputs.normals = SkinZeroPoints
        /\ "tangents" \notin skin.streams => SkinOutputs.tangents = SkinZeroTangents

----------------------------------------------------------------------------
(* npProjectVertices, npProjectVerticesRadial, npProjectVerticesDirectional *)
(* The meshes lie on one line: a position is an integer, a direction is 1  *)
(* or -1 (0 stands for the NaN direction normalize gives for the zero      *)
(* vector), and a triangle of the target is a point of the line.           *)

\* the variables the projection calls leave alone
notProject == <<selection, ret, ins, brush, weld, mir, skin, call, pick, smooth, terrain, weld2, edit, far, paint>>

\* number of vertices of the projected model
ProjNumVertices == 2

\* largest max_distance a caller passes, in units of the vertex spacing
ProjMaxDistance == 4

\* the vertex spacing: positions are even, so that lerp by a half is exact
ProjUnit == 2

ProjVerts == 0 .. ProjNumVertices - 1

\* normalize of the math library on the line; the zero vector stays zero
normalize1(x) == IF x > 0 THEN 1 ELSE IF x < 0 THEN -1 ELSE 0

\* lerp(a, b, s) of the math library, s in units of 1/One
lerp(a, b, s) == (a * (One - s) + b * s) \div One

\* normalize(lerp(a, b, s)) for directions
normalize_lerp(a, b, s) == normalize1(a * (One - s) + b * s)

\* invert of the math library on a transform of the line with scale 1 or -1
invert1(transform) == <<transform[1], -(transform[1] * transform[2])>>

\* the targets: a transform, the points standing for the triangles, and the
\* normal and tangent buffers (empty: the target has no such buffer)
ProjTargets ==
    { [transform |-> IdentityTransform, pvertices |-> <<>>, pnormals |-> <<>>,
       ptangents |-> <<>>],
      [transform |-> IdentityTransform, pvertices |-> <<3 * ProjUnit>>, pnormals |-> <<>>,
       ptangents |-> <<>>],
      [transform |-> <<1, ProjUnit>>, pvertices |-> <<-ProjUnit, ProjUnit>>,
       pnormals |-> <<-1, 1>>, ptangents |-> <<[dir |-> -1, w |-> -1], [dir |-> -1, w |-> 1]>>],
      [transform |-> IdentityTransform, pvertices |-> <<-ProjUnit, 3 * ProjUnit>>,
       pnormals |-> <<1, -1>>, ptangents |-> <<[dir |-> -1, w |-> 1], [dir |-> -1, w |-> -1]>>] }

\* the ray direction arguments of the three entry points
ProjRays ==
    { [fn |-> "npProjectVertices", ray_dirs |-> [vi \in ProjVerts |-> 1]],
      [fn |-> "npProjectVertices", ray_dirs |-> [vi \in ProjVerts |-> IF vi % 2 = 0 THEN -1 ELSE 1]],
      [fn |-> "npProjectVerticesRadial", center |-> 0],
      [fn |-> "npProjectVerticesRadial", center |-> -ProjUnit],
      [fn |-> "npProjectVerticesDirectional", ray_dir |-> 1],
      [fn |-> "npProjectVerticesDirectional", ray_dir |-> -1] }

ProjModes == {"Forward", "Backward", "ForwardAndBackward"}

\* PNT: bit 1 positions, bit 2 normals, bit 4 tangents
ProjPNT == {1, 2, 4, 7}

\* does PNT have the bit
HasBit(pnt, bit) == (pnt \div bit) % 2 = 1

InitProject ==
    /\ \E normals \in [ProjVerts -> {-1, 1}], sel \in [ProjVerts -> {0, One \div 2, One}],
          target \in ProjTargets :
         proj = [phase |-> "start", transform |-> IdentityTransform,
                 vertices |-> [vi \in ProjVerts |-> ProjUnit * vi],
                 normals |-> normals,
                 tangents |-> [vi \in ProjVerts |-> [dir |-> 1, w |-> 1]],
                 selection |-> sel, target |-> target]
    /\ selection = <<>> /\ ret = 0
    /\ ins = Idle /\ brush = Idle /\ weld = Idle /\ mir = Idle /\ skin = Idle
    /\ call = Idle /\ pick = Idle /\ smooth = Idle /\ terrain = Idle /\ weld2 = Idle
    /\ edit = Idle /\ far = Idle /\ paint = Idle

\* ray_dirs[vi] of the entry point: the caller's array, or the RayDir struct
\* of npProjectVerticesRadial and of npProjectVerticesDirectional
RayDir(p, rays, vi) ==
    IF rays.fn = "npProjectVertices" THEN rays.ray_dirs[vi]
    ELSE IF rays.fn = "npProjectVerticesRadial"
    THEN LET ray_dir == normalize1(p.vertices[vi] - mul_p(invert1(p.transform), rays.center))
         IN IF ray_dir * p.normals[vi] > 0 THEN ray_dir ELSE -ray_dir
    ELSE LET ray_dir == normalize1(invert1(p.transform)[1] * rays.ray_dir)
         IN IF ray_dir * p.normals[vi] > 0 THEN ray_dir ELSE -ray_dir

\* the flattened target vertices in the space of the model
Soa(p) ==
    [ti \in 1 .. Len(p.target.pvertices) |->
        mul_p(invert1(p.transform), mul_p(p.target.transform, p.target.pvertices[ti]))]

\* RayTrianglesIntersectionSoA of the math library: the number of triangles
\* the ray hits and the nearest of them; a NaN direction hits nothing
RayTrianglesIntersectionSoA(rpos, rdir, soa) ==
    LET hits == { ti \in DOMAIN soa : rdir # 0 /\ (soa[ti] - rpos) * rdir >= 0 }
        near == CHOOSE ti \in hits :
                    \A tj \in hits : /\ (soa[ti] - rpos) * rdir <= (soa[tj] - rpos) * rdir
                                     /\ (soa[ti] - rpos) * rdir = (soa[tj] - rpos) * rdir => ti <= tj
    IN IF hits = {} THEN [num_hit |-> 0, ti |-> 0, distance |-> 0]
       ELSE [num_hit |-> Cardinality(hits), ti |-> near, distance |-> (soa[near] - rpos) * rdir]

\* num_hit > 0, whatever the distance
HitAcceptedAnyDistance(r, max_distance) == r.num_hit > 0

\* num_hit > 0 && distance < max_distance
HitAccepted(r, max_distance) == r.num_hit > 0 /\ r.distance < max_distance

\* the backward hit replacing a forward hit at the same distance as well
BackwardReplacesOnTie(fhit, f, b) == ~fhit \/ b.distance <= f.distance

\* !hit || distance < min_distance
BackwardReplaces(fhit, f, b) == ~fhit \/ b.distance < f.distance

\* gen_normal: the normal of the target at the hit, zero without a buffer
gen_normal(p, ti) == IF p.target.pnormals # <<>> THEN normalize1(p.target.pnormals[ti]) ELSE 0

\* gen_tangent: the tangent of the target at the hit, zero without a buffer
gen_tangent(p, ti) ==
    IF p.target.ptangents # <<>>
    THEN [dir |-> normalize1(p.target.ptangents[ti].dir), w |-> p.target.ptangents[ti].w]
    ELSE [dir |-> 0, w |-> 0]

\* the task of vertex vi in npProjectVerticesImpl: the new position, normal
\* and tangent of the vertex
ProjectTask(p, soa, rdir, mode, max_distance, PNT, mask, vi) ==
    LET s == IF mask THEN p.selection[vi] ELSE One
        rpos == p.vertices[vi]
        same == [vertex |-> p.vertices[vi], normal |-> p.normals[vi], tangent |-> p.tangents[vi]]
        f == RayTrianglesIntersectionSoA(rpos, rdir, soa)
        b == RayTrianglesIntersectionSoA(rpos, -rdir, soa)
        fhit == /\ mode \in {"Forward", "ForwardAndBackward"}
                /\ HitAccepted(f, max_distance)
        bhit == /\ mode \in {"Backward", "ForwardAndBackward"}
                /\ HitAccepted(b, max_distance)
                /\ BackwardReplaces(fhit, f, b)
        rvertex == IF bhit THEN rpos + (-rdir) * b.distance ELSE rpos + rdir * f.distance
        ti == IF bhit THEN b.ti ELSE f.ti
    IN IF s = 0 THEN same
       ELSE IF ~(fhit \/ bhit) THEN same
       ELSE [vertex |-> IF HasBit(PNT, 1) THEN lerp(p.vertices[vi], rvertex, s)
                        ELSE p.vertices[vi],
             normal |-> IF HasBit(PNT, 2) THEN normalize_lerp(p.normals[vi], gen_normal(p, ti), s)
                        ELSE p.normals[vi],
             tangent |-> IF HasBit(PNT, 4)
                         THEN [dir |-> normalize_lerp(p.tangents[vi].dir, gen_tangent(p, ti).dir, s),
                               w |-> p.tangents[vi].w]
                         ELSE p.tangents[vi]]

\* npProjectVertices, npProjectVerticesRadial or npProjectVerticesDirectional:
\* every vertex task reads and writes the slots of its own vertex only
npProjectVerticesImpl ==
    /\ proj.phase = "start"
    /\ \E rays \in ProjRays, mode \in ProjModes, max_distance \in {ProjUnit, ProjMaxDistance},
          PNT \in ProjPNT, mask \in BOOLEAN :
         \E soa \in {Soa(proj)} :
         \E rdirs \in {[vi \in ProjVerts |-> RayDir(proj, rays, vi)]} :
         \E o \in {[vi \in ProjVerts |->
                      ProjectTask(proj, soa, rdirs[vi], mode, max_distance, PNT, mask, vi)]} :
            proj' = [phase |-> "done", transform |-> proj.transform, target |-> proj.target,
                     selection |-> proj.selection,
                     vertices |-> [vi \in ProjVerts |-> o[vi].vertex],
                     normals |-> [vi \in ProjVerts |-> o[vi].normal],
                     tangents |-> [vi \in ProjVerts |-> o[vi].tangent],
                     fn |-> rays.fn, mode |-> mode, max_distance |-> max_distance,
                     PNT |-> PNT, mask |-> mask, soa |-> soa, ray_dirs |-> rdirs,
                     vertices0 |-> proj.vertices, normals0 |-> proj.normals,
                     tangents0 |-> proj.tangents]
    /\ UNCHANGED notProject

NextProject == npProjectVerticesImpl

SpecProject == InitProject /\ [][NextProject]_vars

\* the directions the mode casts rays in for vertex vi
ProjEnabledDirs(vi) ==
    (IF proj.mode \in {"Forward", "ForwardAndBackward"} THEN {proj.ray_dirs[vi]} ELSE {})
        \cup (IF proj.mode \in {"Backward", "ForwardAndBackward"} THEN {-proj.ray_dirs[vi]} ELSE {})

\* the distances below max_distance at which a ray of vertex vi meets the target
ProjHitsInRange(vi) ==
    { d \in 0 .. proj.max_distance - 1 :
        \E dir \in ProjEnabledDirs(vi), ti \in DOMAIN proj.soa :
            dir # 0 /\ proj.soa[ti] = proj.vertices0[vi] + dir * d }

\* the distances from max_distance on at which a ray of vertex vi meets the target
ProjHitsBeyond(vi) ==
    { d \in proj.max_distance .. 4 * ProjUnit * ProjNumVertices :
        \E dir \in ProjEnabledDirs(vi), ti \in DOMAIN proj.soa :
            dir # 0 /\ proj.soa[ti] = proj.vertices0[vi] + dir * d }

ProjUnchanged(vi) ==
    /\ proj.vertices[vi] = proj.vertices0[vi]
    /\ proj.normals[vi] = proj.normals0[vi]
    /\ proj.tangents[vi] = proj.tangents0[vi]

\* C10: in the three projection entry points a vertex none of whose enabled
\* rays hits the target at a distance < max_distance keeps its position,
\* normal and tangent, and so does every vertex of selection weight 0 when
\* mask is set.
ProjectNoHitUnchanged ==
    proj.phase = "done" =>
        \A vi \in ProjVerts :
            (ProjHitsInRange(vi) = {} \/ (proj.mask /\ proj.selection[vi] = 0)) =>
                ProjUnchanged(vi)

\* a vertex whose only hits lie at max_distance or beyond stays as it was,
\* next to a vertex that was moved
ProjectNoHitWitness ==
    /\ proj.phase = "done"
    /\ \E vi, vj \in ProjVerts :
         /\ ProjHitsInRange(vi) = {}
         /\ ProjHitsBeyond(vi) # {}
         /\ ~proj.mask
         /\ ProjUnchanged(vi)
         /\ proj.vertices[vj] # proj.vertices0[vj]

\* the distances below max_distance at which the ray of vertex vi in the
\* direction dir meets the target
ProjRayHits(vi, dir) ==
    { d \in 0 .. proj.max_distance - 1 :
        \E ti \in DOMAIN proj.soa : dir # 0 /\ proj.soa[ti] = proj.vertices0[vi] + dir * d }

\* the least element of a non-empty set of distances
ProjNearest(ds) == CHOOSE d \in ds : \A e \in ds : d <= e

\* vertex vi was projected with full weight onto the point pos of the target:
\* it has the position and, if the target has normals, the normal of the target there
ProjProjectedOnto(vi, pos) ==
    /\ proj.vertices[vi] = pos
    /\ proj.target.pnormals # <<>> =>
          \E ti \in DOMAIN proj.soa :
              proj.soa[ti] = pos /\ proj.normals[vi] = proj.target.pnormals[ti]

\* C22: in mode ForwardAndBackward, among the forward and the backward hit
\* whose distance is < max_distance the nearer one supplies the projected
\* attributes, the forward one when the distances are equal; a hit rejected
\* for its distance does not keep the hit of the other direction from being used.
ProjectNearerHitWins ==
    (proj.phase = "done" /\ proj.mode = "ForwardAndBackward" /\ proj.PNT = 7) =>
        \A vi \in ProjVerts :
            (IF proj.mask THEN proj.selection[vi] ELSE One) = One =>
                LET F == ProjRayHits(vi, proj.ray_dirs[vi])
                    B == ProjRayHits(vi, -proj.ray_dirs[vi])
                IN /\ (F # {} /\ (B = {} \/ ProjNearest(F) <= ProjNearest(B))) =>
                        ProjProjectedOnto(vi, proj.vertices0[vi] + proj.ray_dirs[vi] * ProjNearest(F))
                   /\ (B # {} /\ (F = {} \/ ProjNearest(B) < ProjNearest(F))) =>
                        ProjProjectedOnto(vi, proj.vertices0[vi] - proj.ray_dirs[vi] * ProjNearest(B))

\* a vertex with a forward and a backward hit at the same distance, not 0,
\* went to the forward hit and took the normal of the target there
ProjectNearerHitWitness ==
    /\ proj.phase = "done"
    /\ proj.mode = "ForwardAndBackward"
    /\ proj.PNT = 7
    /\ ~proj.mask
    /\ \E vi \in ProjVerts :
         LET F == ProjRayHits(vi, proj.ray_dirs[vi])
             B == ProjRayHits(vi, -proj.ray_dirs[vi])
         IN /\ F # {} /\ B # {}
            /\ ProjNearest(F) = ProjNearest(B)
            /\ ProjNearest(F) > 0
            /\ proj.vertices[vi] = proj.vertices0[vi] + proj.ray_dirs[vi] * ProjNearest(F)
            /\ proj.normals[vi] # proj.normals0[vi]

----------------------------------------------------------------------------
(* npWeld2                                                                 *)

\* the variables npWeld2 leaves alone
notWeld2 == <<selection, ret, ins, brush, weld, mir, skin, proj, call, pick, smooth, terrain, edit, far, paint>>

\* number of vertices of the model
W2NumVertices == 2

\* number of targets
W2NumTargets == 2

W2Verts == 0 .. W2NumVertices - 1

W2Targets == 0 .. W2NumTargets - 1

\* target ti has ti + 1 vertices
W2TargetVerts(ti) == 0 .. ti

\* a quarter turn followed by a translation, and a translation
W2TurnShift == Transform(<< <<0, 1>>, <<-1, 0>> >>, <<2, 0>>)

W2Shift(ti) == Transform(<< <<1, 0>>, <<0, 1>> >>, <<2 * ti, 0>>)

\* the transform of target ti
W2TargetTransform(ti) == IF ti = 0 THEN identity ELSE IF ti = 1 THEN W2TurnShift ELSE W2Shift(ti)

\* local positions of the model vertices
W2Positions == { <<0, 0>>, <<4, 0>> }

\* local normals of model and target vertices, at 0 and 36.87 degrees
W2Normals == { <<25, 0>>, <<20, 15>> }

\* weld angles (see AngleWithin): 36.87 and 90 degrees
W2Angles == {4, 0}

W2Modes == 0 .. 3

\* the targets whose vertex normals are given by nr
W2TargetsOf(nr) ==
    [ti \in W2Targets |->
        [transform |-> W2TargetTransform(ti),
         vertices |-> [tvi \in W2TargetVerts(ti) |-> <<2 * tvi, 0>>],
         normals |-> nr[ti]]]

W2TargetNormals ==
    { nr \in [W2Targets -> UNION { [W2TargetVerts(ti) -> W2Normals] : ti \in W2Targets }] :
        \A ti \in W2Targets : DOMAIN nr[ti] = W2TargetVerts(ti) }

InitWeld2 ==
    /\ \E ps \in [W2Verts -> W2Positions], ns \in [W2Verts -> W2Normals],
          transform \in {identity, Rot90}, nr \in W2TargetNormals,
          weld_mode \in W2Modes, weld_angle \in W2Angles, mask \in BOOLEAN :
         /\ ns[0] = <<25, 0>>
         /\ weld2 = [phase |-> "call", transform |-> transform, vertices |-> ps, normals |-> ns,
                     selection |-> [vi \in W2Verts |-> IF mask /\ vi = 0 THEN 0 ELSE One],
                     targets |-> W2TargetsOf(nr),
                     weld_mode |-> weld_mode, weld_angle |-> weld_angle, mask |-> mask]
    /\ selection = <<>> /\ ret = 0
    /\ ins = Idle /\ brush = Idle /\ weld = Idle /\ mir = Idle /\ skin = Idle /\ proj = Idle
    /\ call = Idle /\ pick = Idle /\ smooth = Idle /\ terrain = Idle
    /\ edit = Idle /\ far = Idle /\ paint = Idle

\* the world space buffers of lines 728-753
W2World(m) ==
    [wvertices |-> [vi \in W2Verts |-> mul_p4(m.transform, m.vertices[vi])],
     wnormals |-> [vi \in W2Verts |-> mul_v(m.transform, m.normals[vi])],
     twvertices |-> [ti \in W2Targets |->
                       [tvi \in W2TargetVerts(ti) |->
                           mul_p4(m.targets[ti].transform, m.targets[ti].vertices[tvi])]],
     twnormals |-> [ti \in W2Targets |->
                      [tvi \in W2TargetVerts(ti) |->
                          mul_v(m.targets[ti].transform, m.targets[ti].normals[tvi])]]]

\* the coincidence test with the selection test dropped
W2MatchUnmasked(m, w, ti, vi, tvi) ==
    /\ dot(VSub(w.twvertices[ti][tvi], w.wvertices[vi]),
           VSub(w.twvertices[ti][tvi], w.wvertices[vi])) < npEpsilon * npEpsilon
    /\ AngleWithin(w.wnormals[vi], w.twnormals[ti][tvi], m.weld_angle)

\* the coincidence test of lines 763-772 for model vertex vi and vertex tvi
\* of target ti
W2Match(m, w, ti, vi, tvi) ==
    /\ (IF m.mask THEN m.selection[vi] ELSE One) # 0
    /\ dot(VSub(w.twvertices[ti][tvi], w.wvertices[vi]),
           VSub(w.twvertices[ti][tvi], w.wvertices[vi])) < npEpsilon * npEpsilon
    /\ AngleWithin(w.wnormals[vi], w.twnormals[ti][tvi], m.weld_angle)

\* the weld map of target ti: the matched pairs <<vi, tvi>> in the order of
\* the loops over vi and tvi
W2WeldMap(m, w, ti) ==
    LET ntv == ti + 1
        all == [k \in 1 .. W2NumVertices * ntv |-> <<(k - 1) \div ntv, (k - 1) % ntv>>]
        Matched(rel) == W2Match(m, w, ti, rel[1], rel[2])
    IN SelectSeq(all, Matched)

\* weld_mode 0, target ti: tna[rel.second] = mul_v(it, wnormals[rel.first])
RECURSIVE W2CopyToTarget(_, _, _, _)
W2CopyToTarget(tna, map, it, src) ==
    IF map = <<>> THEN tna
    ELSE W2CopyToTarget([tna EXCEPT ![Head(map)[2]] = mul_v(it, src[Head(map)[1]])],
                        Tail(map), it, src)

\* weld_mode 1, one target: normals[rel.first] = mul_v(itrans, twna[rel.second])
RECURSIVE W2CopyFromTarget(_, _, _, _)
W2CopyFromTarget(normals, map, itrans, twna) ==
    IF map = <<>> THEN normals
    ELSE W2CopyFromTarget([normals EXCEPT ![Head(map)[1]] = mul_v(itrans, twna[Head(map)[2]])],
                          Tail(map), itrans, twna)

\* weld_mode 2, one target: tmp_wnormals[rel.first] += twna[rel.second]
RECURSIVE W2Accumulate(_, _, _)
W2Accumulate(tmp, map, twna) ==
    IF map = <<>> THEN tmp
    ELSE W2Accumulate([tmp EXCEPT ![Head(map)[1]] = VAdd(@, twna[Head(map)[2]])],
                      Tail(map), twna)

\* weld_mode 2, one target: normals[rel.first] = mul_v(itrans, tmp_wnormals[rel.first])
RECURSIVE W2BroadcastModel(_, _, _, _)
W2BroadcastModel(normals, map, itrans, tmp) ==
    IF map = <<>> THEN normals
    ELSE W2BroadcastModel([normals EXCEPT ![Head(map)[1]] = mul_v(itrans, tmp[Head(map)[1]])],
                          Tail(map), itrans, tmp)

\* a loop over the targets ti .. num_targets - 1 that updates the model buffer
\* acc with Step(acc, ti)
RECURSIVE W2OverTargets(_, _, _)
W2OverTargets(Step(_, _), acc, ti) ==
    IF ti = W2NumTargets THEN acc ELSE W2OverTargets(Step, Step(acc, ti), ti + 1)

\* npWeld2 on m: ret, the weld maps, and the normal buffers of the model and
\* of the targets when it returns
Weld2Run(m) ==
    LET w == W2World(m)
        maps == [ti \in W2Targets |-> W2WeldMap(m, w, ti)]
        count == SumSeq([k \in 1 .. W2NumTargets |-> Len(maps[k - 1])])
        itrans == invert(m.transform)
        titrans == [ti \in W2Targets |-> invert(m.targets[ti].transform)]
        tnormals0 == [ti \in W2Targets |-> m.targets[ti].normals]
        From(acc, ti) == W2CopyFromTarget(acc, maps[ti], itrans, w.twnormals[ti])
        Acc(acc, ti) == W2Accumulate(acc, maps[ti], w.twnormals[ti])
        sums == W2OverTargets(Acc, w.wnormals, 0)
        tmp == [vi \in W2Verts |-> normalize(sums[vi])]
        Bcast(acc, ti) == W2BroadcastModel(acc, maps[ti], itrans, tmp)
    IN IF count = 0
       THEN [ret |-> 0, maps |-> maps, normals |-> m.normals, tnormals |-> tnormals0]
       ELSE IF m.weld_mode = 0
       THEN [ret |-> count, maps |-> maps, normals |-> m.normals,
             tnormals |-> [ti \in W2Targets |->
                             W2CopyToTarget(tnormals0[ti], maps[ti], titrans[ti], w.wnormals)]]
       ELSE IF m.weld_mode = 1
       THEN [ret |-> count, maps |-> maps,
             normals |-> W2OverTargets(From, m.normals, 0), tnormals |-> tnormals0]
       ELSE IF m.weld_mode = 2
       THEN [ret |-> count, maps |-> maps,
             normals |-> W2OverTargets(Bcast, m.normals, 0),
             tnormals |-> [ti \in W2Targets |->
                             W2CopyToTarget(tnormals0[ti], maps[ti], titrans[ti], tmp)]]
       ELSE [ret |-> count, maps |-> maps, normals |-> m.normals, tnormals |-> tnormals0]

\* npWeld2(model, num_targets, targets, weld_mode, weld_angle, mask); positions
\* and selection are not written
npWeld2 ==
    /\ weld2.phase = "call"
    /\ \E o \in {Weld2Run(weld2)} :
         weld2' = [phase |-> "done", transform |-> weld2.transform,
                   vertices |-> weld2.vertices, normals |-> weld2.normals,
                   selection |-> weld2.selection, targets |-> weld2.targets,
                   weld_mode |-> weld2.weld_mode, weld_angle |-> weld2.weld_angle,
                   mask |-> weld2.mask, out |-> o]
    /\ UNCHANGED notWeld2

NextWeld2 == npWeld2

SpecWeld2 == InitWeld2 /\ [][NextWeld2]_vars

\* world space position and normal of model vertex vi, before the call
W2WorldPos(vi) == mul_p4(weld2.transform, weld2.vertices[vi])

W2WorldNormal(vi) == mul_v(weld2.transform, weld2.normals[vi])

\* world space position and normal of vertex tvi of target ti, before the call
W2TargetWorldPos(ti, tvi) ==
    mul_p4(weld2.targets[ti].transform, weld2.targets[ti].vertices[tvi])

W2TargetWorldNormal(ti, tvi) ==
    mul_v(weld2.targets[ti].transform, weld2.targets[ti].normals[tvi])

\* the matched pairs: model vertex vi (selected, when mask is set) and vertex
\* tvi of target ti less than epsilon apart in world space, their world
\* normals within weld_angle
W2Pairs ==
    { pr \in UNION { { <<ti, vi, tvi>> : vi \in W2Verts, tvi \in W2TargetVerts(ti) } :
                     ti \in W2Targets } :
        /\ (weld2.mask => weld2.selection[pr[2]] # 0)
        /\ LET d == <<W2TargetWorldPos(pr[1], pr[3])[1] - W2WorldPos(pr[2])[1],
                      W2TargetWorldPos(pr[1], pr[3])[2] - W2WorldPos(pr[2])[2]>>
           IN d[1] * d[1] + d[2] * d[2] < npEpsilon * npEpsilon
        /\ AngleWithin(W2WorldNormal(pr[2]), W2TargetWorldNormal(pr[1], pr[3]),
                       weld2.weld_angle) }

\* world space normals when npWeld2 has returned
W2WorldNormalAfter(vi) == mul_v(weld2.transform, weld2.out.normals[vi])

W2TargetWorldNormalAfter(ti, tvi) ==
    mul_v(weld2.targets[ti].transform, weld2.out.tnormals[ti][tvi])

\* C19: after npWeld2 with weld_mode 2, for every matched pair (vi, tvi) the
\* world space normal of vi equals the world space normal of tvi.
Weld2PairsAgree ==
    (weld2.phase = "done" /\ weld2.weld_mode = 2) =>
        \A pr \in W2Pairs :
            W2WorldNormalAfter(pr[2]) = W2TargetWorldNormalAfter(pr[1], pr[3])

\* C20: npWeld2 returns the number of matched pairs over all targets; mode 0
\* changes only normals of matched target vertices and no normal of the
\* model; mode 1 changes only normals of matched model vertices and no
\* target normal; normals of unmatched vertices are never changed.
Weld2WritesConfined ==
    weld2.phase = "done" =>
        /\ weld2.out.ret = Cardinality(W2Pairs)
        /\ weld2.weld_mode = 0 => weld2.out.normals = weld2.normals
        /\ weld2.weld_mode = 1 =>
              \A ti \in W2Targets : weld2.out.tnormals[ti] = weld2.targets[ti].normals
        /\ \A vi \in W2Verts :
              (\A pr \in W2Pairs : pr[2] # vi) => weld2.out.normals[vi] = weld2.normals[vi]
        /\ \A ti \in W2Targets : \A tvi \in W2TargetVerts(ti) :
              (\A pr \in W2Pairs : pr[1] # ti \/ pr[3] # tvi) =>
                  weld2.out.tnormals[ti][tvi] = weld2.targets[ti].normals[tvi]

\* a masked call in mode 1 matched several pairs and changed a model normal,
\* while the unselected vertex, coincident with a target vertex, kept its own
Weld2ConfinedWitness ==
    /\ weld2.phase = "done"
    /\ weld2.weld_mode = 1
    /\ weld2.mask
    /\ weld2.out.ret >= 2
    /\ weld2.out.normals[1] # weld2.normals[1]
    /\ \E ti \in W2Targets : \E tvi \in W2TargetVerts(ti) :
         W2TargetWorldPos(ti, tvi) = W2WorldPos(0)

----------------------------------------------------------------------------
(* One selection or weld call, with the buffers as they were before it     *)

\* the variables a recorded selection call leaves alone
notCall == <<selection, ret, ins, brush, weld, mir, skin, proj, pick, smooth, terrain, weld2, edit, far, paint>>

InitCall ==
    /\ \E sel \in [Verts -> 0 .. One] : call = [phase |-> "start", selection |-> sel]
    /\ selection = <<>> /\ ret = 0
    /\ ins = Idle /\ brush = Idle /\ weld = Idle /\ mir = Idle /\ skin = Idle /\ proj = Idle
    /\ pick = Idle /\ smooth = Idle /\ terrain = Idle /\ weld2 = Idle
    /\ edit = Idle /\ far = Idle /\ paint = Idle

\* the call fn(.., clear, ..) returns r and leaves the selection buffer sel
Returned(fn, clear, sel, r) ==
    /\ call' = [phase |-> "done", fn |-> fn, clear |-> clear, before |-> call.selection,
                selection |-> sel, ret |-> r]
    /\ UNCHANGED notCall

\* a topology call that never zeroes the buffer
TopologyResultNoClear(sel, strength, clear, reported) ==
    [selection |-> SelAddAll(sel, reported, strength), ret |-> Len(reported)]

\* a topology call that zeroes the buffer whether or not clear is set
TopologyResultAlwaysClear(sel, strength, clear, reported) ==
    [selection |-> SelAddAll(ClearSel, reported, strength), ret |-> Len(reported)]

\* npSelectEdge, npSelectHole, npSelectConnected after the target subset is
\* built: the optional memset, then the visitor for every reported vertex
TopologyResult(sel, strength, clear, reported) ==
    [selection |-> SelAddAll(IF clear THEN ClearSel ELSE sel, reported, strength),
     ret |-> Len(reported)]

CallSelectSingle ==
    /\ call.phase = "start"
    /\ \E strength \in Strengths, hit \in BOOLEAN, pick_index \in Verts :
         Returned("npSelectSingle", FALSE,
                  IF hit THEN SelAdd(call.selection, pick_index, strength) ELSE call.selection,
                  IF hit THEN 1 ELSE 0)

CallSelectTriangle ==
    /\ call.phase = "start"
    /\ \E strength \in Strengths, hit \in BOOLEAN, ti \in 1 .. Len(indices) :
         Returned("npSelectTriangle", FALSE,
                  IF hit THEN SelAddAll(call.selection, indices[ti], strength)
                  ELSE call.selection,
                  IF hit THEN 1 ELSE 0)

CallSelectEdge ==
    /\ call.phase = "start"
    /\ \E strength \in Strengths, clear \in BOOLEAN, mask \in BOOLEAN,
          reported \in SeqsUpTo(Verts, MaxReport) :
         /\ \A k \in 1 .. Len(reported) : reported[k] \in Targets(call.selection, mask)
         /\ \E o \in {TopologyResult(call.selection, strength, clear, reported)} :
              Returned("npSelectEdge", clear, o.selection, o.ret)

CallSelectHole ==
    /\ call.phase = "start"
    /\ \E strength \in Strengths, clear \in BOOLEAN, mask \in BOOLEAN,
          reported \in SeqsUpTo(Verts, MaxReport) :
         /\ \A k \in 1 .. Len(reported) : reported[k] \in Targets(call.selection, mask)
         /\ \E o \in {TopologyResult(call.selection, strength, clear, reported)} :
              Returned("npSelectHole", clear, o.selection, o.ret)

CallSelectConnected ==
    /\ call.phase = "start"
    /\ \E strength \in Strengths, clear \in BOOLEAN, reported \in SeqsUpTo(Verts, MaxReport) :
         /\ (Targets(call.selection, TRUE) = {} => reported = <<>>)
         /\ \E o \in {TopologyResult(call.selection, strength, clear, reported)} :
              Returned("npSelectConnected", clear, o.selection, o.ret)

CallSelectRect ==
    /\ call.phase = "start"
    /\ \E strength \in Strengths, hits \in SUBSET Verts :
         Returned("npSelectRect", FALSE, SelAddSet(call.selection, hits, strength),
                  Cardinality(hits))

CallSelectLasso ==
    /\ call.phase = "start"
    /\ \E strength \in Strengths, num_lasso_points \in 2 .. 3, hits \in SUBSET Verts :
         IF num_lasso_points < 3
         THEN Returned("npSelectLasso", FALSE, call.selection, 0)
         ELSE Returned("npSelectLasso", FALSE, SelAddSet(call.selection, hits, strength),
                       Cardinality(hits))

CallSelectBrush ==
    /\ call.phase = "start"
    /\ \E pos \in 0 .. MaxRadius + 1, radius \in 1 .. MaxRadius,
          strength \in BrushStrengths, bsamples \in [1 .. MaxBSamples -> SampleValues] :
         LET inside == { vi \in Verts : Inside(IdentityTransform, vertices, vi, pos, radius) }
             s(vi) == fmul(GetBrushSample(VisitDistance(IdentityTransform, vertices, vi, pos),
                                          radius, bsamples, Len(bsamples)), strength)
         IN Returned("npSelectBrush", FALSE,
                     [vi \in Verts |-> IF vi \in inside THEN clamp01(call.selection[vi] + s(vi))
                                       ELSE call.selection[vi]],
                     Cardinality(inside))

\* one call of a selection operation, of npWeld or of npWeld2
InitCount == InitCall \/ InitWeld \/ InitWeld2

NextCount ==
    \/ CallSelectSingle
    \/ CallSelectTriangle
    \/ CallSelectEdge
    \/ CallSelectHole
    \/ CallSelectConnected
    \/ CallSelectRect
    \/ CallSelectLasso
    \/ CallSelectBrush
    \/ npWeld
    \/ npWeld2

SpecCount == InitCount /\ [][NextCount]_vars

\* npWeld or npWeld2 returned 0 and left every normal buffer as it was
WeldZeroNoEffect ==
    /\ (weld.phase = "done" /\ weld.out.ret = 0) => weld.out.normals = weld.normals
    /\ (weld2.phase = "done" /\ weld2.out.ret = 0) =>
          /\ weld2.out.normals = weld2.normals
          /\ \A ti \in W2Targets : weld2.out.tnormals[ti] = weld2.targets[ti].normals

\* C11 as stated: whenever a selection or weld operation returns 0 the
\* selection buffer and the normal buffers are what they were before the
\* call, for every combination of flags including clear.
ZeroCountNoEffect ==
    /\ (call.phase = "done" /\ call.ret = 0) => call.selection = call.before
    /\ WeldZeroNoEffect

\* C11 amended: whenever a selection or weld operation returns 0 the buffers
\* are what they were before the call, except that npSelectEdge, npSelectHole
\* and npSelectConnected called with clear set zero the selection buffer
\* first, also when they return 0.
ZeroCountNoEffectUnlessClear ==
    /\ (call.phase = "done" /\ call.ret = 0) =>
          call.selection = (IF call.clear THEN [vi \in Verts |-> 0] ELSE call.before)
    /\ WeldZeroNoEffect

\* a topology call without clear returned 0 on a buffer with selected
\* vertices and left them selected
ZeroCountWitness ==
    /\ call.phase = "done"
    /\ call.fn = "npSelectEdge"
    /\ ~call.clear
    /\ call.ret = 0
    /\ \E vi \in Verts : call.before[vi] > 0 /\ call.selection[vi] = call.before[vi]

(* npSelectEdge, npSelectHole and npSelectConnected with their arguments.  *)
(* The searches SelectEdge, SelectHole and SelectConnected report every     *)
(* matched vertex once.                                                     *)

\* the lists a topology search can report: every vertex at most once; the
\* boundary searches report vertices of the target subset, the flood fill any
\* vertex reachable from it
TopologyReports(fn, targets) ==
    { r \in SeqsUpTo(Verts, MaxReport) :
        /\ \A j, k \in 1 .. Len(r) : j # k => r[j] # r[k]
        /\ fn # "npSelectConnected" => \A k \in 1 .. Len(r) : r[k] \in targets
        /\ targets = {} => r = <<>> }

\* the call fn(model, strength, clear, mask): the target subset is built,
\* then the buffer is zeroed if clear is set, then the search runs
TopologyCall(fn, masks) ==
    /\ call.phase = "start"
    /\ \E strength \in Strengths, clear \in BOOLEAN, mask \in masks :
       \E targets \in {Targets(call.selection, mask)} :
       \E reported \in TopologyReports(fn, targets) :
       \E o \in {TopologyResult(call.selection, strength, clear, reported)} :
         call' = [phase |-> "done", fn |-> fn, clear |-> clear, before |-> call.selection,
                  selection |-> o.selection, ret |-> o.ret, strength |-> strength,
                  mask |-> mask, targets |-> targets, reported |-> reported]
    /\ UNCHANGED notCall

TopoSelectEdge == TopologyCall("npSelectEdge", BOOLEAN)

TopoSelectHole == TopologyCall("npSelectHole", BOOLEAN)

\* npSelectConnected has no mask argument: the targets are the selected vertices
TopoSelectConnected == TopologyCall("npSelectConnected", {TRUE})

NextTopology ==
    \/ TopoSelectEdge
    \/ TopoSelectHole
    \/ TopoSelectConnected

SpecTopology == InitCall /\ [][NextTopology]_vars

\* C24: in npSelectEdge, npSelectHole and npSelectConnected with clear set
\* the target subset is taken from the selection as it was before the call,
\* every vertex the search did not report ends with weight 0, every reported
\* vertex with clamp01(0 + strength), and the return value is the number of
\* reported vertices.
TopologyClearResult ==
    (call.phase = "done" /\ call.clear) =>
        /\ call.targets = (IF call.mask THEN { vi \in Verts : call.before[vi] > 0 } ELSE Verts)
        /\ \A vi \in Verts :
             call.selection[vi] =
                IF \E k \in 1 .. Len(call.reported) : call.reported[k] = vi
                THEN Max2(0, Min2(One, call.strength))
                ELSE 0
        /\ call.ret = Cardinality({ call.reported[k] : k \in 1 .. Len(call.reported) })

\* with clear and mask a selected vertex that was not reported lost its
\* weight, and a reported one got the strength alone, not added to its old weight
TopologyClearWitness ==
    /\ call.phase = "done"
    /\ call.clear
    /\ call.mask
    /\ call.ret = 1
    /\ \E vi \in Verts :
         /\ call.before[vi] > 0
         /\ call.selection[vi] = 0
    /\ call.before[call.reported[1]] > 0
    /\ call.selection[call.reported[1]] = call.strength
    /\ call.strength < One

----------------------------------------------------------------------------
(* npSelectNearestImpl                                                     *)

\* the variables npSelectNearestImpl leaves alone
notPick == <<selection, ret, ins, brush, weld, mir, skin, proj, call, smooth, terrain, weld2, edit, far, paint>>

\* number of vertices of the picked mesh
PickNumVertices == 3

\* capacity of the candidate buffer (64 in the source)
max_inside == 2

\* FLT_MAX: larger than every screen distance
FLT_MAX == 1000

PickVerts == 0 .. PickNumVertices - 1

\* screen distances length(sp - rcenter) of the vertices, in the units of npEpsilon
PickDistances == {0, 2, 4}

\* dot(normals[vi], dir) in units of 1/One: -1, 0.5, 0, -0.5, ..
PickFacing(vi) == ((vi * 3) % 4) - 2

\* near_equal(a, b, npEpsilon)
near_equal_eps(a, b) == Abs(a - b) < npEpsilon

\* a slot of insider[] nobody wrote
PickNoSlot == [first |-> -1, second |-> -1]

InitPick ==
    /\ \E inside \in [PickVerts -> BOOLEAN], distance \in [PickVerts -> PickDistances] :
         /\ \A vi \in PickVerts : ~inside[vi] => distance[vi] = 0
         /\ pick = [phase |-> "gather", inside |-> inside, distance |-> distance,
                    pending |-> PickVerts, claimed |-> <<>>, num_inside_a |-> 0,
                    insider |-> [ii \in 0 .. max_inside - 1 |-> PickNoSlot],
                    writes |-> {}]
    /\ selection = <<>> /\ ret = 0
    /\ ins = Idle /\ brush = Idle /\ weld = Idle /\ mir = Idle /\ skin = Idle /\ proj = Idle
    /\ call = Idle /\ smooth = Idle /\ terrain = Idle /\ weld2 = Idle
    /\ edit = Idle /\ far = Idle /\ paint = Idle

\* the gathering task of vertex vi up to int ii = num_inside_a++: a vertex
\* that fails the rectangle or front-face test is done at once
PickGatherClaim(vi) ==
    /\ pick.phase = "gather"
    /\ vi \in pick.pending
    /\ pick' = IF pick.inside[vi]
               THEN [pick EXCEPT !.pending = @ \ {vi},
                                 !.claimed = @ @@ (vi :> pick.num_inside_a),
                                 !.num_inside_a = @ + 1]
               ELSE [pick EXCEPT !.pending = @ \ {vi}]
    /\ UNCHANGED notPick

\* a task writing whatever index it drew
PickSlotAny(ii) == TRUE

\* if (ii < max_inside)
PickSlotInRange(ii) == ii < max_inside

\* the rest of the gathering task of vertex vi: if (ii < max_inside) the slot
\* insider[ii] is written; writes records which task wrote which index
PickGatherWrite(vi) ==
    /\ pick.phase = "gather"
    /\ vi \in DOMAIN pick.claimed
    /\ LET ii == pick.claimed[vi]
           rest == [v \in (DOMAIN pick.claimed) \ {vi} |-> pick.claimed[v]]
       IN pick' = IF PickSlotInRange(ii)
                  THEN [pick EXCEPT !.claimed = rest,
                                    !.insider = [k \in DOMAIN pick.insider |->
                                                    IF k = ii
                                                    THEN [first |-> vi, second |-> pick.distance[vi]]
                                                    ELSE pick.insider[k]],
                                    !.writes = @ \cup {[task |-> vi, slot |-> ii]}]
                  ELSE [pick EXCEPT !.claimed = rest]
    /\ UNCHANGED notPick

\* the iteration that prefers the larger dot(normal, dir)
NearestStepLeastFacing(best, vi, distance) ==
    IF near_equal_eps(distance, best.nearest_distance)
    THEN IF PickFacing(vi) > best.nearest_facing
         THEN [nearest_index |-> vi, nearest_distance |-> distance,
               nearest_facing |-> PickFacing(vi)]
         ELSE best
    ELSE IF distance < best.nearest_distance
    THEN [nearest_index |-> vi, nearest_distance |-> distance,
          nearest_facing |-> PickFacing(vi)]
    ELSE best

\* one iteration of the search loop of lines 219-238
NearestStep(best, vi, distance) ==
    IF near_equal_eps(distance, best.nearest_distance)
    THEN IF PickFacing(vi) < best.nearest_facing
         THEN [nearest_index |-> vi, nearest_distance |-> distance,
               nearest_facing |-> PickFacing(vi)]
         ELSE best
    ELSE IF distance < best.nearest_distance
    THEN [nearest_index |-> vi, nearest_distance |-> distance,
          nearest_facing |-> PickFacing(vi)]
    ELSE best

\* the search loop from slot ii on
RECURSIVE NearestSearch(_, _, _, _)
NearestSearch(insider, num_inside, best, ii) ==
    IF ii >= num_inside THEN best
    ELSE NearestSearch(insider, num_inside,
                       NearestStep(best, insider[ii].first, insider[ii].second), ii + 1)

\* after the join: num_inside, the search and the return value
PickSearch ==
    /\ pick.phase = "gather"
    /\ pick.pending = {}
    /\ DOMAIN pick.claimed = {}
    /\ LET num_inside == Min2(pick.num_inside_a, max_inside)
           best == NearestSearch(pick.insider, num_inside,
                                 [nearest_index |-> 0, nearest_distance |-> FLT_MAX,
                                  nearest_facing |-> One], 0)
       IN pick' = [phase |-> "done", inside |-> pick.inside, distance |-> pick.distance,
                   insider |-> pick.insider, num_inside |-> num_inside,
                   writes |-> pick.writes,
                   found |-> num_inside > 0,
                   pick_index |-> IF num_inside > 0 THEN best.nearest_index ELSE -1]
    /\ UNCHANGED notPick

NextPick ==
    \/ \E vi \in PickVerts : PickGatherClaim(vi)
    \/ \E vi \in PickVerts : PickGatherWrite(vi)
    \/ PickSearch

SpecPick == InitPick /\ [][NextPick]_vars

\* the vertices in the searched slots of the candidate buffer
PickCandidates == { pick.insider[ii].first : ii \in 0 .. pick.num_inside - 1 }

\* the smallest screen distance of a candidate
PickMinDistance ==
    CHOOSE d \in { pick.distance[c] : c \in PickCandidates } :
        \A c \in PickCandidates : d <= pick.distance[c]

\* C12 as stated: among the candidates whose distance is minimal and equal
\* within epsilon, the vertex picked is the one whose normal faces the camera
\* least directly, that is with the largest dot(normal, dir), whatever the
\* order of the candidates.
PickLeastFacing ==
    (pick.phase = "done" /\ pick.found) =>
        /\ pick.distance[pick.pick_index] - PickMinDistance < npEpsilon
        /\ \A c \in PickCandidates :
              pick.distance[c] - PickMinDistance < npEpsilon =>
                  PickFacing(c) <= PickFacing(pick.pick_index)

\* C12 amended: when every candidate is either at the minimal distance or at
\* least epsilon beyond it, the vertex picked is a candidate at the minimal
\* distance whose normal faces the camera most directly, that is with the
\* smallest dot(normal, dir), whatever the order of the candidates.
PickMostFacingAmongNearest ==
    (/\ pick.phase = "done" /\ pick.found
     /\ \A c \in PickCandidates :
          pick.distance[c] = PickMinDistance \/ pick.distance[c] - PickMinDistance >= npEpsilon)
    => /\ pick.pick_index \in PickCandidates
       /\ pick.distance[pick.pick_index] = PickMinDistance
       /\ \A c \in PickCandidates :
             pick.distance[c] = PickMinDistance =>
                 PickFacing(pick.pick_index) <= PickFacing(c)

\* two candidates at the minimal distance, the more camera-facing one
\* gathered first, and a farther candidate; the more camera-facing one is picked
PickWitness ==
    /\ pick.phase = "done" /\ pick.found
    /\ pick.num_inside >= 2
    /\ pick.pick_index = pick.insider[0].first
    /\ pick.distance[pick.insider[1].first] = pick.distance[pick.pick_index]
    /\ PickFacing(pick.insider[1].first) > PickFacing(pick.pick_index)
    /\ \E vi \in PickVerts : pick.inside[vi] /\ pick.distance[vi] > pick.distance[pick.pick_index]

\* C23: under every interleaving of the gathering tasks each slot of the
\* candidate buffer is written by at most one task, no task writes at an
\* index >= max_inside, the number of candidates searched is the minimum of
\* the number of vertices that passed the filters and max_inside, and every
\* searched slot was written by a gathering task.
PickGatherBounded ==
    pick.phase \in {"gather", "done"} =>
        /\ \A w1, w2 \in pick.writes : w1.slot = w2.slot => w1.task = w2.task
        /\ \A w \in pick.writes : w.slot \in 0 .. max_inside - 1
        /\ pick.phase = "done" =>
              /\ pick.num_inside =
                    Min2(Cardinality({ vi \in PickVerts : pick.inside[vi] }), max_inside)
              /\ \A ii \in 0 .. pick.num_inside - 1 :
                    \E w \in pick.writes :
                        w.slot = ii /\ pick.insider[ii].first = w.task /\ pick.inside[w.task]

\* more vertices passed the filters than the buffer holds: one was dropped,
\* and the slots were filled out of index order
PickGatherWitness ==
    /\ pick.phase = "done"
    /\ Cardinality({ vi \in PickVerts : pick.inside[vi] }) > max_inside
    /\ pick.num_inside = max_inside
    /\ Cardinality(pick.writes) = max_inside
    /\ pick.insider[0].first > pick.insider[1].first

----------------------------------------------------------------------------
(* npSmooth                                                                *)

\* the variables npSmooth leaves alone
notSmooth == <<selection, ret, ins, brush, weld, mir, skin, proj, call, pick, terrain, weld2, edit, far, paint>>

\* number of vertices of the smoothed mesh; vertex vi lies at 2 * vi on a line
SmoothNumVertices == 2

\* largest smoothing radius
SmoothMaxRadius == 2

SmoothVerts == 0 .. SmoothNumVertices - 1

\* unit normals of the smoothed mesh
SmoothNormals == { <<25, 0>>, <<0, 25>> }

InitSmooth ==
    /\ \E normals \in [SmoothVerts -> SmoothNormals],
          sel \in [SmoothVerts -> {0, One \div 2, One}],
          radius \in {0, SmoothMaxRadius}, mask \in BOOLEAN :
         smooth = [phase |-> "run", transform |-> IdentityTransform,
                   vertices |-> [vi \in SmoothVerts |-> 2 * vi],
                   normals |-> normals, normals0 |-> normals, selection |-> sel,
                   radius |-> radius, strength |-> One, mask |-> mask,
                   pc |-> [vi \in SmoothVerts |-> 0],
                   average |-> [vi \in SmoothVerts |-> <<0, 0>>]]
    /\ selection = <<>> /\ ret = 0
    /\ ins = Idle /\ brush = Idle /\ weld = Idle /\ mir = Idle /\ skin = Idle /\ proj = Idle
    /\ call = Idle /\ pick = Idle /\ terrain = Idle /\ weld2 = Idle
    /\ edit = Idle /\ far = Idle /\ paint = Idle

\* tvertices[vi] = mul_p(model->transform, vertices[vi])
SmoothWorld(m, vi) == mul_p(m.transform, m.vertices[vi])

\* is vertex i within the radius of vertex vi: dsq <= rsq
SmoothNear(m, vi, i) ==
    length_sq(SmoothWorld(m, i) - SmoothWorld(m, vi)) <= m.radius * m.radius

\* the weight s of the task of vertex vi
SmoothWeight(m, vi) == IF m.mask THEN m.selection[vi] ELSE One

\* normalize(normals[vi] + average * (strength * s)) with average normalized
SmoothBlend(n, average, strength, s) ==
    normalize(VAdd(VScale(n, One * One), VScale(normalize(average), strength * s)))

\* the task of vertex vi reads normals[i] for the next vertex i of its loop;
\* a task whose weight is 0 returns at once
SmoothRead(vi) ==
    /\ smooth.phase = "run"
    /\ smooth.pc[vi] < SmoothNumVertices
    /\ LET i == smooth.pc[vi]
       IN smooth' =
            IF SmoothWeight(smooth, vi) = 0
            THEN [smooth EXCEPT !.pc[vi] = SmoothNumVertices + 1]
            ELSE IF SmoothNear(smooth, vi, i)
            THEN [smooth EXCEPT !.pc[vi] = i + 1,
                                !.average[vi] = VAdd(@, VScale(smooth.normals[i], smooth.selection[i]))]
            ELSE [smooth EXCEPT !.pc[vi] = i + 1]
    /\ UNCHANGED notSmooth

\* the task of vertex vi writes normals[vi] and ends
SmoothWrite(vi) ==
    /\ smooth.phase = "run"
    /\ smooth.pc[vi] = SmoothNumVertices
    /\ smooth' = [smooth EXCEPT
                    !.pc[vi] = SmoothNumVertices + 1,
                    !.normals[vi] = SmoothBlend(smooth.normals[vi], smooth.average[vi],
                                                smooth.strength, SmoothWeight(smooth, vi))]
    /\ UNCHANGED notSmooth

\* the parallel_for is over: npSmooth returns
SmoothReturn ==
    /\ smooth.phase = "run"
    /\ \A vi \in SmoothVerts : smooth.pc[vi] = SmoothNumVertices + 1
    /\ smooth' = [smooth EXCEPT !.phase = "done"]
    /\ UNCHANGED notSmooth

NextSmooth ==
    \/ \E vi \in SmoothVerts : SmoothRead(vi)
    \/ \E vi \in SmoothVerts : SmoothWrite(vi)
    \/ SmoothReturn

SpecSmooth == InitSmooth /\ [][NextSmooth]_vars

\* the sum over the vertices 0 .. i within the radius of vi of the normals as
\* they were before the call, weighted by the selection
RECURSIVE SmoothAverageBefore(_, _)
SmoothAverageBefore(vi, i) ==
    IF i < 0 THEN <<0, 0>>
    ELSE LET d == 2 * i - 2 * vi
             rest == SmoothAverageBefore(vi, i - 1)
         IN IF d * d <= smooth.radius * smooth.radius
            THEN <<rest[1] + smooth.normals0[i][1] * smooth.selection[i],
                   rest[2] + smooth.normals0[i][2] * smooth.selection[i]>>
            ELSE rest

\* C13: for every interleaving of the vertex tasks the final normal of each
\* vertex is the one computed from the normals as they were before the call.
SmoothOrderIndependent ==
    smooth.phase = "done" =>
        \A vi \in SmoothVerts :
            smooth.normals[vi] =
                SmoothBlend(smooth.normals0[vi],
                            SmoothAverageBefore(vi, SmoothNumVertices - 1),
                            smooth.strength, IF smooth.mask THEN smooth.selection[vi] ELSE One)

----------------------------------------------------------------------------
(* npGenerateTerrainMesh                                                   *)

\* the variables npGenerateTerrainMesh leaves alone
notTerrain == <<selection, ret, ins, brush, weld, mir, skin, proj, call, pick, smooth, weld2, edit, far, paint>>

\* largest width and height of the height map
TerrainMaxSize == 3

\* fixed-point 1.0 of the terrain coordinates; 1 / (width - 1) is exact
TerrainUnit == 6

\* the memory at dst_indices: the buffer of num_triangles * 3 slots and what
\* lies behind it, as far as the index loop can reach
TerrainSlots(width, height) == 0 .. 6 * width * (height - 1) - 1

\* the height maps: flat or alternating
TerrainHeightmaps(width, height) ==
    { [i \in 0 .. width * height - 1 |-> 0], [i \in 0 .. width * height - 1 |-> i % 2] }

InitTerrain ==
    /\ \E width \in 2 .. TerrainMaxSize, height \in 2 .. TerrainMaxSize,
          garbage \in {0, TerrainMaxSize * TerrainMaxSize} :
       \E heightmap \in TerrainHeightmaps(width, height) :
         terrain = [phase |-> "run", width |-> width, height |-> height,
                    heightmap |-> heightmap, size |-> <<1, 2, 1>>,
                    num_vertices |-> width * height,
                    num_triangles |-> (width - 1) * (height - 1) * 2,
                    dst_vertices |-> [i \in 0 .. width * height - 1 |-> <<0, 0, 0>>],
                    dst_uv |-> [i \in 0 .. width * height - 1 |-> <<0, 0>>],
                    dst_indices |-> [k \in TerrainSlots(width, height) |-> garbage],
                    written |-> {}, vpos |-> 0, cell |-> 0, triangles |-> <<>>]
    /\ selection = <<>> /\ ret = 0
    /\ ins = Idle /\ brush = Idle /\ weld = Idle /\ mir = Idle /\ skin = Idle /\ proj = Idle
    /\ call = Idle /\ pick = Idle /\ smooth = Idle /\ weld2 = Idle
    /\ edit = Idle /\ far = Idle /\ paint = Idle

\* float3{ 1.0f / (width - 1), 1.0f, 1.0f / (height - 1) } * size
size_unit(t) ==
    <<(TerrainUnit \div (t.width - 1)) * t.size[1], TerrainUnit * t.size[2],
      (TerrainUnit \div (t.height - 1)) * t.size[3]>>

\* float2{ 1.0f / (width - 1), 1.0f / (height - 1) }
uv_unit(t) == <<TerrainUnit \div (t.width - 1), TerrainUnit \div (t.height - 1)>>

\* one pass of the inner loop of the first task: vertex and uv of grid point i
TerrainVertexStep ==
    /\ terrain.phase = "run"
    /\ terrain.vpos < terrain.height * terrain.width
    /\ LET i == terrain.vpos
           ix == i % terrain.width
           iy == i \div terrain.width
           su == size_unit(terrain)
           uu == uv_unit(terrain)
       IN terrain' = [terrain EXCEPT
                        !.dst_vertices[i] = <<ix * su[1], terrain.heightmap[i] * su[2], iy * su[3]>>,
                        !.dst_uv[i] = <<ix * uu[1], iy * uu[2]>>,
                        !.vpos = i + 1]
    /\ UNCHANGED notTerrain

\* the six slots the second task writes for the cell (ix, iy), with their values
TerrainCellWrites(width, ix, iy) ==
    LET i6 == (iy * width + ix) * 6
    IN { <<i6 + 0, width * iy + ix>>,
         <<i6 + 1, width * (iy + 1) + ix>>,
         <<i6 + 2, width * (iy + 1) + (ix + 1)>>,
         <<i6 + 3, width * iy + ix>>,
         <<i6 + 4, width * (iy + 1) + (ix + 1)>>,
         <<i6 + 5, width * iy + (ix + 1)>> }

\* one pass of the inner loop of the second task: the two triangles of a cell
TerrainIndexStep ==
    /\ terrain.phase = "run"
    /\ terrain.cell < (terrain.height - 1) * (terrain.width - 1)
    /\ LET ix == terrain.cell % (terrain.width - 1)
           iy == terrain.cell \div (terrain.width - 1)
           w == TerrainCellWrites(terrain.width, ix, iy)
       IN terrain' = [terrain EXCEPT
                        !.dst_indices = [k \in DOMAIN terrain.dst_indices |->
                                            IF \E e \in w : e[1] = k
                                            THEN (CHOOSE e \in w : e[1] = k)[2]
                                            ELSE terrain.dst_indices[k]],
                        !.written = @ \cup { e[1] : e \in w },
                        !.cell = @ + 1]
    /\ UNCHANGED notTerrain

\* both tasks are over: the normal generation reads num_triangles triples of
\* dst_indices
TerrainGenerateNormals ==
    /\ terrain.phase = "run"
    /\ terrain.vpos = terrain.height * terrain.width
    /\ terrain.cell = (terrain.height - 1) * (terrain.width - 1)
    /\ terrain' = [terrain EXCEPT
                     !.phase = "done",
                     !.triangles = [ti \in 1 .. terrain.num_triangles |->
                                       <<terrain.dst_indices[3 * (ti - 1)],
                                         terrain.dst_indices[3 * (ti - 1) + 1],
                                         terrain.dst_indices[3 * (ti - 1) + 2]>>]]
    /\ UNCHANGED notTerrain

NextTerrain ==
    \/ TerrainVertexStep
    \/ TerrainIndexStep
    \/ TerrainGenerateNormals

SpecTerrain == InitTerrain /\ [][NextTerrain]_vars

\* C14: when npGenerateTerrainMesh is over the written positions of
\* dst_indices are exactly 0 .. num_triangles * 3 - 1 and every written index
\* is below width * height.
TerrainIndicesExact ==
    terrain.phase = "done" =>
        /\ terrain.written = 0 .. 6 * (terrain.width - 1) * (terrain.height - 1) - 1
        /\ \A k \in terrain.written : terrain.dst_indices[k] < terrain.width * terrain.height

----------------------------------------------------------------------------
(* npAssignVertices, npMoveVertices, npRotatePivotVertices, npScaleVertices *)

\* the variables the vertex edit calls leave alone
notEdit == <<selection, ret, ins, brush, weld, mir, skin, proj, call, pick, smooth, terrain, weld2, far, paint>>

\* number of vertices of the edited mesh
EditNumVertices == 2

EditVerts == 0 .. EditNumVertices - 1

\* local positions of the edited mesh
EditPositions == { <<2, 0>>, <<2, 4>> }

\* the value arguments: positions, offsets and scale factors
EditValues == { <<4, 2>>, <<0, -2>> }

EditScales == { <<2, 1>>, <<0, 2>>, <<-1, 1>> }

\* a shift of the origin
EditShift == Transform(<< <<1, 0>>, <<0, 1>> >>, <<2, 0>>)

\* to_mat4x4 of a rotation by k quarter turns
RECURSIVE QuarterTurns(_)
QuarterTurns(k) == IF k = 0 THEN identity ELSE MatMul(QuarterTurns(k - 1), Rot90)

\* translate(pivot_pos)
translate(pos) == Transform(<< <<1, 0>>, <<0, 1>> >>, pos)

\* scale44(value)
scale44(value) == Transform(<< <<value[1], 0>>, <<0, value[2]>> >>, <<0, 0>>)

\* lerp of the math library on points
lerp_p(a, b, s) == <<lerp(a[1], b[1], s), lerp(a[2], b[2], s)>>

InitEdit ==
    /\ \E ps \in [EditVerts -> EditPositions], sel \in [EditVerts -> 0 .. One],
          mask \in BOOLEAN, transform \in {identity, MatMul(Rot90, EditShift)} :
         edit = [phase |-> "start", transform |-> transform, vertices |-> ps,
                 normals |-> [vi \in EditVerts |-> <<0, 25>>],
                 tangents |-> [vi \in EditVerts |-> [dir |-> <<25, 0>>, w |-> 1]],
                 selection |-> sel, mask |-> mask]
    /\ selection = <<>> /\ ret = 0
    /\ ins = Idle /\ brush = Idle /\ weld = Idle /\ mir = Idle /\ skin = Idle /\ proj = Idle
    /\ call = Idle /\ pick = Idle /\ smooth = Idle /\ terrain = Idle /\ weld2 = Idle
    /\ far = Idle /\ paint = Idle

\* float s = mask ? selection[vi] : 1.0f without the mask test
EditWeightOfSelection(m, vi) == m.selection[vi]

\* float s = mask ? selection[vi] : 1.0f
EditWeight(m, vi) == IF m.mask THEN m.selection[vi] ELSE One

\* the state after an edit call that wrote the positions vs
Edited(fn, args, vs) ==
    [phase |-> "done", fn |-> fn, args |-> args, transform |-> edit.transform,
     vertices |-> vs, normals |-> edit.normals, tangents |-> edit.tangents,
     selection |-> edit.selection, mask |-> edit.mask, vertices0 |-> edit.vertices,
     normals0 |-> edit.normals, tangents0 |-> edit.tangents, selection0 |-> edit.selection]

\* the loop of an edit call: vertex vi is skipped when s == 0 and otherwise
\* lerp(vertices[vi], target, s) is written
EditLoop(m, target) ==
    [vi \in EditVerts |->
        IF EditWeight(m, vi) = 0 THEN m.vertices[vi]
        ELSE lerp_p(m.vertices[vi], target[vi], EditWeight(m, vi))]

\* v2 of npAssignVertices: the components of v1 named by xyz replaced
AssignComponents(v1, value, xyz) ==
    <<IF HasBit(xyz, 1) THEN value[1] ELSE v1[1], IF HasBit(xyz, 2) THEN value[2] ELSE v1[2]>>

npAssignVertices ==
    /\ edit.phase = "start"
    /\ \E value \in EditValues, trans \in {identity, Rot90}, xyz \in 0 .. 3 :
         edit' = Edited("assign", [value |-> value, trans |-> trans, xyz |-> xyz],
                    [vi \in EditVerts |->
                        IF EditWeight(edit, vi) = 0 THEN edit.vertices[vi]
                        ELSE LET v1 == mul_p4(trans, edit.vertices[vi])
                                 v2 == AssignComponents(v1, value, xyz)
                             IN mul_p4(invert(trans), lerp_p(v1, v2, EditWeight(edit, vi)))])
    /\ UNCHANGED notEdit

npMoveVertices ==
    /\ edit.phase = "start"
    /\ \E value \in EditValues :
         LET lvalue == mul_v(invert(edit.transform), value)
         IN edit' = Edited("move", [value |-> value],
                       [vi \in EditVerts |->
                           IF EditWeight(edit, vi) = 0 THEN edit.vertices[vi]
                           ELSE VAdd(edit.vertices[vi],
                                     <<(lvalue[1] * EditWeight(edit, vi)) \div One,
                                       (lvalue[2] * EditWeight(edit, vi)) \div One>>)])
    /\ UNCHANGED notEdit

\* to_pivot_space * m * to_local_space
PivotTransform(transform, pivot_pos, pivot_rot, m) ==
    LET ptrans == MatMul(invert(QuarterTurns(pivot_rot)), translate(pivot_pos))
        to_pivot_space == MatMul(transform, invert(ptrans))
        to_local_space == MatMul(ptrans, invert(transform))
    IN MatMul(MatMul(to_pivot_space, m), to_local_space)

\* value is a rotation by value quarter turns; angle 0 returns at once
npRotatePivotVertices ==
    /\ edit.phase = "start"
    /\ \E value \in 0 .. 3, pivot_pos \in EditValues, pivot_rot \in 0 .. 1 :
         \E rotation \in {PivotTransform(edit.transform, pivot_pos, pivot_rot, QuarterTurns(value))} :
           edit' = Edited("rotate", [value |-> value, pivot_pos |-> pivot_pos, pivot_rot |-> pivot_rot],
                      IF value = 0 THEN edit.vertices
                      ELSE EditLoop(edit, [vi \in EditVerts |-> mul_p4(rotation, edit.vertices[vi])]))
    /\ UNCHANGED notEdit

npScaleVertices ==
    /\ edit.phase = "start"
    /\ \E value \in EditScales, pivot_pos \in EditValues, pivot_rot \in 0 .. 1 :
         \E scale \in {PivotTransform(edit.transform, pivot_pos, pivot_rot, scale44(value))} :
           edit' = Edited("scale", [value |-> value, pivot_pos |-> pivot_pos, pivot_rot |-> pivot_rot],
                      EditLoop(edit, [vi \in EditVerts |-> mul_p4(scale, edit.vertices[vi])]))
    /\ UNCHANGED notEdit

NextEdit ==
    \/ npAssignVertices
    \/ npMoveVertices
    \/ npRotatePivotVertices
    \/ npScaleVertices

SpecEdit == InitEdit /\ [][NextEdit]_vars

\* the fully transformed position of vertex vi under the call that was made
EditTarget(vi) ==
    LET v == edit.vertices0[vi]
        a == edit.args
    IN IF edit.fn = "assign"
       THEN mul_p4(invert(a.trans), AssignComponents(mul_p4(a.trans, v), a.value, a.xyz))
       ELSE IF edit.fn = "move"
       THEN VAdd(v, mul_v(invert(edit.transform), a.value))
       ELSE IF edit.fn = "rotate"
       THEN mul_p4(PivotTransform(edit.transform, a.pivot_pos, a.pivot_rot, QuarterTurns(a.value)), v)
       ELSE mul_p4(PivotTransform(edit.transform, a.pivot_pos, a.pivot_rot, scale44(a.value)), v)

\* C21: after npAssignVertices, npMoveVertices, npRotatePivotVertices or
\* npScaleVertices with mask set the position of every vertex of weight 0 is
\* unchanged; normals, tangents and selection are unchanged; with mask clear
\* every vertex is at its fully transformed position whatever its weight.
EditMaskFrame ==
    edit.phase = "done" =>
        /\ edit.mask => \A vi \in EditVerts :
                          edit.selection[vi] = 0 => edit.vertices[vi] = edit.vertices0[vi]
        /\ edit.normals = edit.normals0
        /\ edit.tangents = edit.tangents0
        /\ edit.selection = edit.selection0
        /\ ~edit.mask => \A vi \in EditVerts : edit.vertices[vi] = EditTarget(vi)

\* with mask set a vertex of weight 0, which the call would have moved,
\* stayed while another vertex moved
EditMaskWitness ==
    /\ edit.phase = "done"
    /\ \E vi, vj \in EditVerts :
         /\ edit.selection[vi] = 0
         /\ edit.mask
         /\ edit.selection[vj] > 0
         /\ edit.vertices[vj] # edit.vertices0[vj]
         /\ EditTarget(vi) # edit.vertices0[vi]

----------------------------------------------------------------------------
(* GetFurthestDistance                                                     *)

\* the variables GetFurthestDistance leaves alone
notFar == <<selection, ret, ins, brush, weld, mir, skin, proj, call, pick, smooth, terrain, weld2, edit, paint>>

\* number of vertices of the measured mesh
FarNumVertices == 2

FarVerts == 0 .. FarNumVertices - 1

\* FLT_MIN, the smallest positive float: not below 0 and below every squared
\* distance of the grid other than 0
FLT_MIN == 0

\* local positions of the vertices
FarPositions == { <<0, 0>>, <<2, 0>>, <<0, 4>> }

InitFar ==
    /\ \E ps \in [FarVerts -> FarPositions], sel \in [FarVerts -> {0, One}],
          pos \in { <<0, 0>>, <<2, 0>> }, mask \in BOOLEAN,
          transform \in {identity, MatMul(Rot90, EditShift)} :
         far = [phase |-> "start", transform |-> transform, vertices |-> ps,
                selection |-> sel, pos |-> pos, mask |-> mask]
    /\ selection = <<>> /\ ret = 0
    /\ ins = Idle /\ brush = Idle /\ weld = Idle /\ mir = Idle /\ skin = Idle /\ proj = Idle
    /\ call = Idle /\ pick = Idle /\ smooth = Idle /\ terrain = Idle /\ weld2 = Idle
    /\ edit = Idle /\ paint = Idle

\* length_sq of the math library on points
length_sq_p(v) == dot(v, v)

\* the loop of GetFurthestDistance from vertex vi on; acc is furthest_sq and
\* furthest_vi (-1: not assigned)
RECURSIVE FurthestLoop(_, _, _, _)
FurthestLoop(m, lpos, acc, vi) ==
    IF vi = FarNumVertices THEN acc
    ELSE IF ~m.mask \/ m.selection[vi] > 0
    THEN LET dsq == length_sq_p(VSub(m.vertices[vi], lpos))
         IN IF dsq > acc.furthest_sq
            THEN FurthestLoop(m, lpos, [furthest_sq |-> dsq, furthest_vi |-> vi], vi + 1)
            ELSE FurthestLoop(m, lpos, acc, vi + 1)
    ELSE FurthestLoop(m, lpos, acc, vi + 1)

\* GetFurthestDistance(model, pos, mask, vidx, dist); dist is kept squared,
\* vidx and dist are -1 when the call leaves them unassigned
GetFurthestDistance ==
    /\ far.phase = "start"
    /\ \E lpos \in {mul_p4(invert(far.transform), far.pos)} :
       \E acc \in {FurthestLoop(far, lpos, [furthest_sq |-> FLT_MIN, furthest_vi |-> -1], 0)} :
         far' = [phase |-> "done", transform |-> far.transform, vertices |-> far.vertices,
                 selection |-> far.selection, pos |-> far.pos, mask |-> far.mask,
                 ret |-> acc.furthest_sq > FLT_MIN,
                 vidx |-> IF acc.furthest_sq > FLT_MIN THEN acc.furthest_vi ELSE -1,
                 dist |-> IF acc.furthest_sq > FLT_MIN
                          THEN length_sq_p(VSub(mul_p4(far.transform, far.vertices[acc.furthest_vi]),
                                                far.pos))
                          ELSE -1]
    /\ UNCHANGED notFar

NextFar == GetFurthestDistance

SpecFar == InitFar /\ [][NextFar]_vars

\* the vertices the call may return
FarEligible == { vi \in FarVerts : ~far.mask \/ far.selection[vi] > 0 }

\* the squared world-space distance of vertex vi to the point
FarWorldDistance(vi) ==
    LET w == mul_p4(far.transform, far.vertices[vi])
    IN (w[1] - far.pos[1]) * (w[1] - far.pos[1]) + (w[2] - far.pos[2]) * (w[2] - far.pos[2])

\* C25: GetFurthestDistance returns true exactly when some vertex is eligible,
\* also when all eligible vertices coincide with the point, and vidx is then
\* an eligible vertex at the largest world-space distance to the point.
FurthestFound ==
    far.phase = "done" =>
        /\ far.ret <=> FarEligible # {}
        /\ far.ret =>
              /\ far.vidx \in FarEligible
              /\ \A vi \in FarEligible : FarWorldDistance(vi) <= FarWorldDistance(far.vidx)

----------------------------------------------------------------------------
(* npBrushPaint: the visitor on one vertex inside the brush                *)

\* the variables npBrushPaint leaves alone
notPaint == <<selection, ret, ins, brush, weld, mir, skin, proj, call, pick, smooth, terrain, weld2, edit, far>>

InitPaint ==
    /\ \E radius \in 1 .. MaxRadius, bsamples \in Curves, strength \in {-One, One},
          mask \in BOOLEAN, vn \in { <<0, 25>>, <<15, 20>> } :
         \E distance \in 0 .. radius :
            paint = [phase |-> "visit", distance |-> distance, radius |-> radius,
                     bsamples |-> bsamples, num_bsamples |-> Len(bsamples),
                     strength |-> strength, mask |-> mask, selection |-> One \div 2,
                     n |-> <<0, 25>>, normal |-> vn]
    /\ selection = <<>> /\ ret = 0
    /\ ins = Idle /\ brush = Idle /\ weld = Idle /\ mir = Idle /\ skin = Idle /\ proj = Idle
    /\ call = Idle /\ pick = Idle /\ smooth = Idle /\ terrain = Idle /\ weld2 = Idle
    /\ edit = Idle /\ far = Idle

\* the two curve indices the slope is taken from: upper and lower
PaintSlopeIndices(bsi, num_bsamples) ==
    IF bsi = 0 THEN <<bsi + 1, bsi>>
    ELSE IF bsi = num_bsamples - 1 THEN <<bsi, bsi - 1>>
    ELSE <<bsi + 1, bsi - 1>>

\* the slope in units of 1 / (2 * One): the difference divided by
\* 1 / (num_bsamples - 1), or by twice that between the ends; a division by
\* 1.0f / 0 gives 0
PaintSlope(hi, lo, bsi, num_bsamples) ==
    IF bsi = 0 \/ bsi = num_bsamples - 1
    THEN 2 * (hi - lo) * (num_bsamples - 1)
    ELSE (hi - lo) * (num_bsamples - 1)

\* the visitor of npBrushPaint on a vertex at paint.distance from the brush
\* center: a read beyond the curve yields whatever lies behind it
PaintVisit ==
    /\ paint.phase = "visit"
    /\ \E bsi \in {GetBrushSampleIndex(paint.distance, paint.radius, paint.num_bsamples)} :
       \E ix \in {PaintSlopeIndices(bsi, paint.num_bsamples)} :
       \E beyond \in SampleValues :
         LET read(k) == IF k \in 0 .. paint.num_bsamples - 1 THEN paint.bsamples[k + 1] ELSE beyond
             s0 == clamp01((read(bsi) * Abs(paint.strength) * 2) \div One)
             s == IF paint.mask THEN fmul(s0, paint.selection) ELSE s0
             sign == IF paint.strength < 0 THEN -1 ELSE 1
             slope0 == PaintSlope(read(ix[1]), read(ix[2]), bsi, paint.num_bsamples)
             t0 == IF paint.distance > 0 THEN <<NormalLen, 0>> ELSE <<0, 0>>
             t == IF slope0 < 0 THEN VScale(t0, -1) ELSE t0
             slope == Abs(slope0)
             c == Max2(0, Min2(2 * One, slope \div 2))
             r0 == normalize(VAdd(VScale(paint.n, 2 * One - c), VScale(t, sign * c)))
             r == VAdd(VScale(paint.normal, One - s), VScale(r0, s))
         IN paint' = [paint EXCEPT
                        !.phase = "done",
                        !.normal = normalize(VAdd(VScale(paint.normal, One * One), VScale(r, s)))]
                     @@ [bsi |-> bsi, slope |-> slope0, reads |-> {bsi, ix[1], ix[2]}]
    /\ UNCHANGED notPaint

NextPaint == PaintVisit

SpecPaint == InitPaint /\ [][NextPaint]_vars

\* C26: for every curve length >= 1, radius > 0 and distance in 0 .. radius
\* the bucket index of GetBrushSampleIndex lies in 0 .. num_bsamples - 1, and
\* so does every curve index the slope computation of npBrushPaint reads.
PaintIndicesInRange ==
    paint.phase = "done" =>
        /\ paint.bsi \in 0 .. paint.num_bsamples - 1
        /\ \A k \in paint.reads : k \in 0 .. paint.num_bsamples - 1

====
